---- MODULE Spec2Model ----
(***************************************************************************)
(* A model of the opcua-turbo client layer: the TypeCache (opcua/cache.py), *)
(* the batch writer (src/opcua/client/writer.py), the navigator            *)
(* (src/opcua/navigation/navigator.py) and the connection life cycle of    *)
(* OPCUAReader / OPCUAWriter.  Each component has its own specification;   *)
(* the variables of the other components stay at their idle values.        *)
(***************************************************************************)
EXTENDS Integers, Sequences, FiniteSets, TLC

VARIABLES
    \* ---- TypeCache (opcua/cache.py) ----
    datatype_definitions,  \* OrderedDict: sequence of [key, val], oldest first
    field_names,           \* OrderedDict: sequence of [key, val], oldest first
    max_size,              \* self._max_size
    hits,                  \* self._hits
    misses,                \* self._misses
    cache_op,              \* the last call: [name, key, val, ret, raised, evicted]
    d_recency,             \* history: keys of the definitions keyspace by last use
    f_recency,             \* history: keys of the field-names keyspace by last use
    \* ---- write_values (src/opcua/client/writer.py) ----
    w_data,                \* the input map: sequence of [path, value] in dict order
    w_auto_convert,        \* the auto_convert argument
    w_failing,             \* nodes whose write_value raises (server snapshot)
    w_value,               \* the server's value of every variable node
    w_results,             \* the returned map: path string -> BOOLEAN
    w_log,                 \* the write_value calls issued, in order
    w_phase,               \* "ready" before the call, "returned" after it
    \* ---- find_specific_object (src/opcua/navigation/navigator.py) ----
    f_children,            \* node -> its get_children() answer (ordered)
    f_match,               \* the Object nodes whose display name is target_name
    f_failing,             \* nodes whose read_display_name raises
    f_max_level,           \* the max_level argument
    f_root,                \* the node argument of the top-level call
    f_stack,               \* the activations: [node, level, pc, idx], innermost last
    f_visited,             \* the visited set shared by the activations
    f_log,                 \* history: what the call did to the address space, in
                           \* order: <<"enter", n>> visited.add(n) and the reads
                           \* of n's display name and class, <<"children", n>>
                           \* n.get_children(), <<"check", n>> check_child's reads
                           \* of n's display name and class
    f_ret,                 \* the value an activation has just returned, NoRet if none
    f_result,              \* what the top-level call returned
    f_phase,               \* "running" until the top-level call returns, then "done"
    \* ---- get_child_objects (src/opcua/navigation/navigator.py) ----
    l_children,            \* node -> its get_children() answer (ordered)
    l_objects,             \* the nodes of class Object
    l_failing,             \* nodes whose read_display_name raises
    l_max_level,           \* the max_level argument
    l_max_concurrent,      \* the max_concurrent argument
    l_task,                \* process_child tasks by path: [st, ret]
    l_sem,                 \* permits left in the semaphore of each call, by path
    l_result,              \* what the top-level call returned
    l_phase,               \* "ready", "running", "returned"
    \* ---- OPCUAWriter / OPCUAReader life cycle ----
    cw_url,                \* the url the writer was constructed with
    cw_client,             \* writer.client: None, or a Client "open" / "closed"
    cw_ok,                 \* history: the writer's last connect() succeeded and no
                           \* disconnect() followed
    cw_scope,              \* the writer's `async with` block: "none", "body", "left"
    cw_pending,            \* history: the writer started a collaborator connect and
                           \* has not called the collaborator's disconnect since
    cr_url,                \* the url the reader was constructed with
    cr_client,             \* reader.client: None, or a Client "open" / "closed"
    cr_epac,               \* reader._epac_node
    cr_target,             \* reader.target_object
    cr_ok,                 \* history: as cw_ok, for the reader
    cr_phase,              \* "idle"; inside connect(), "connecting" while the
                           \* collaborator's connect is awaited with no answer and
                           \* "finding" while the search is awaited
    cr_scope,              \* the reader's `async with` block: "none", "entering",
                           \* "body", "left"
    cr_pending,            \* history: as cw_pending, for the reader
    c_op,                  \* the last call: [obj, name, outcome, sent]
    c_calls,               \* calls made so far
    \* ---- find_and_read_variable / read_object_children (opcua/reader.py) ----
    r_kids,                \* the children of the object read, in get_children order
    r_browse_fails,        \* get_children of the object raises
    r_name,                \* the variable_name argument
    r_call,                \* the function called
    r_scan,                \* find_and_read_variable: position of its loop
    r_node,                \* the children handed to the running gather
    r_tasks,               \* the gather's tasks: Todo, or what the task returned
    r_all_data,            \* read_all: the all_data dict being filled
    r_result,              \* what the call returned
    r_phase,               \* "setup", "scanning", "gathering", "reading_objects",
                           \* "done"
    \* ---- find_node_by_path (src/opcua/navigation/navigator.py) ----
    p_path,                \* the path argument as its split('.') image
    p_root,                \* the root_object_name argument
    p_failing,             \* nodes whose read_browse_name / read_display_name raise
    p_result,              \* what the call returned
    p_phase,               \* "setup", "done"
    \* ---- python_to_variant (src/opcua/core/type_conversion.py) ----
    v_value,               \* the value argument
    v_prefer,              \* the prefer_type argument
    v_variant,             \* the ua.Variant returned: [vtype, value]
    v_phase,               \* "setup", "done"
    \* ---- format_value (opcua/parser.py) on its own ----
    fv_node,               \* the node argument of format_value, with its raw value
    fv_result,             \* what format_value returned
    fv_probes,             \* the metadata reads format_value made, in order
    fv_phase,              \* "setup", "done"
    \* ---- write_values calls running concurrently (client/writer.py) ----
    rw_value,              \* the array the server holds for the parent node
    rw_fields,             \* call -> the fields of its group, an ordered dict field_name -> value
    rw_seen,               \* call -> the current_value it read, PyNone before the read
    rw_results,            \* call -> the result map it returned
    rw_pc,                 \* call -> "start", "read" (between read_value and write_value), "done"
    dc_key,                \* the data-type identifier of the value each task decodes
    dc_pc,                 \* where each decoding task stands
    dc_names,              \* the field-names keyspace of the shared TypeCache
    dc_browses,            \* get_children() calls issued per data-type node
    dc_answer              \* the field names each task obtained

cacheVars == <<datatype_definitions, field_names, max_size, hits, misses,
               cache_op, d_recency, f_recency>>

writeVars == <<w_data, w_auto_convert, w_failing, w_value, w_results, w_log, w_phase>>

findVars == <<f_children, f_match, f_failing, f_max_level, f_root, f_stack,
              f_visited, f_log, f_ret, f_result, f_phase>>

listVars == <<l_children, l_objects, l_failing, l_max_level, l_max_concurrent,
              l_task, l_sem, l_result, l_phase>>

connVars == <<cw_url, cw_client, cw_ok, cw_scope, cw_pending,
              cr_url, cr_client, cr_epac, cr_target, cr_ok, cr_phase, cr_scope,
              cr_pending, c_op, c_calls>>

readVars == <<r_kids, r_browse_fails, r_name, r_call, r_scan, r_node, r_tasks,
              r_all_data, r_result, r_phase>>

pathVars == <<p_path, p_root, p_failing, p_result, p_phase>>

variantVars == <<v_value, v_prefer, v_variant, v_phase>>

formatVars == <<fv_node, fv_result, fv_probes, fv_phase>>

raceVars == <<rw_value, rw_fields, rw_seen, rw_results, rw_pc>>

discVars == <<dc_key, dc_pc, dc_names, dc_browses, dc_answer>>

vars == <<cacheVars, writeVars, findVars, listVars, connVars, readVars, pathVars,
          variantVars, formatVars, raceVars, discVars>>

\* what an action of one component leaves alone
notCache == <<writeVars, findVars, listVars, connVars, readVars, pathVars, variantVars, formatVars, raceVars, discVars>>
notWrite == <<cacheVars, findVars, listVars, connVars, readVars, pathVars, variantVars, formatVars, raceVars, discVars>>
notFind == <<cacheVars, writeVars, listVars, connVars, readVars, pathVars, variantVars, formatVars, raceVars, discVars>>
notList == <<cacheVars, writeVars, findVars, connVars, readVars, pathVars, variantVars, formatVars, raceVars, discVars>>
notRead == <<cacheVars, writeVars, findVars, listVars, connVars, pathVars, variantVars, formatVars, raceVars, discVars>>
notPath == <<cacheVars, writeVars, findVars, listVars, connVars, readVars, variantVars, formatVars, raceVars, discVars>>
notVariant == <<cacheVars, writeVars, findVars, listVars, connVars, readVars, pathVars, formatVars, raceVars, discVars>>
notFormat == <<cacheVars, writeVars, findVars, listVars, connVars, readVars, pathVars, variantVars, raceVars, discVars>>
notRace == <<cacheVars, writeVars, findVars, listVars, connVars, readVars, pathVars, variantVars, formatVars, discVars>>
notDisc == <<cacheVars, writeVars, findVars, listVars, connVars, readVars, pathVars, variantVars, formatVars, raceVars>>

None == "None"

\* ------------------------------------------------------------------------
\* Generic helpers on sequences and ordered dictionaries
\* ------------------------------------------------------------------------
Range(s) == {s[i] : i \in 1..Len(s)}

SeqKeys(d) == {d[i].key : i \in 1..Len(d)}

\* dict.get(key): the stored value, None when the key is absent
DictGet(d, k) ==
    IF \E i \in 1..Len(d) : d[i].key = k
    THEN (CHOOSE e \in Range(d) : e.key = k).val
    ELSE None

SeqRemoveKey(d, k) == SelectSeq(d, LAMBDA e : e.key # k)

\* OrderedDict.move_to_end(key)
MoveToEnd(d, k) ==
    LET e == CHOOSE x \in Range(d) : x.key = k
    IN  Append(SeqRemoveKey(d, k), e)

\* as DictSet, leaving the value of an existing key as it was
DictSet_keep(d, k, v) ==
    IF k \in SeqKeys(d) THEN d ELSE Append(d, [key |-> k, val |-> v])

\* OrderedDict.__setitem__: an existing key keeps its position, a new key is
\* appended
DictSet(d, k, v) ==
    IF k \in SeqKeys(d)
    THEN [i \in 1..Len(d) |-> IF d[i].key = k THEN [key |-> k, val |-> v] ELSE d[i]]
    ELSE Append(d, [key |-> k, val |-> v])

\* ------------------------------------------------------------------------
\* TypeCache
\* ------------------------------------------------------------------------
MaxCap == 2        \* capacities 0..MaxCap are configured
MaxGets == 2       \* get calls counted per cache life

CacheKeys == {"k1", "k2", "k3"}
CacheValues == {None, "v1"}

NoOp == [name |-> "init", key |-> None, val |-> None, ret |-> None, raised |-> FALSE,
         evicted |-> None]

\* _evict_if_needed guard with an off-by-one
EvictNeeded_gt(cache, cap) == Len(cache) > cap

\* _evict_if_needed: `if len(cache) >= self._max_size`
EvictNeeded(cache, cap) == Len(cache) >= cap

\* _evict_if_needed: popitem(last=False) removes the first (oldest) entry;
\* on an empty OrderedDict popitem raises KeyError.
EvictRaises(cache, cap) == EvictNeeded(cache, cap) /\ Len(cache) = 0

EvictedKey(cache, cap) ==
    IF EvictNeeded(cache, cap) /\ Len(cache) > 0 THEN Head(cache).key ELSE None

EvictIfNeeded(cache, cap) ==
    IF EvictNeeded(cache, cap) /\ Len(cache) > 0 THEN Tail(cache) ELSE cache

\* a get that leaves the order alone
AfterGet_nomove(cache, k) == cache

\* get_*: `if result is not None: move_to_end(key)`
AfterGet(cache, k) ==
    IF DictGet(cache, k) # None THEN MoveToEnd(cache, k) ELSE cache

\* set_*: evict, assign, move_to_end
AfterSet(cache, cap, k, v) ==
    MoveToEnd(DictSet(EvictIfNeeded(cache, cap), k, v), k)

\* The use history kept beside the cache: a key is used by a set that stores it
\* and by a get that returns its value; a key leaves the history when its entry
\* leaves the keyspace.
Touch(rec, k) == Append(SelectSeq(rec, LAMBDA x : x # k), k)
Forget(rec, k) == SelectSeq(rec, LAMBDA x : x # k)

CacheInit ==
    /\ datatype_definitions = <<>>
    /\ field_names = <<>>
    /\ max_size \in 0..MaxCap
    /\ hits = 0
    /\ misses = 0
    /\ cache_op = NoOp
    /\ d_recency = <<>>
    /\ f_recency = <<>>

get_definition(k) ==
    /\ hits + misses < MaxGets
    /\ LET result == DictGet(datatype_definitions, k) IN
        /\ hits' = IF result # None THEN hits + 1 ELSE hits
        /\ misses' = IF result # None THEN misses ELSE misses + 1
        /\ datatype_definitions' = AfterGet(datatype_definitions, k)
        /\ d_recency' = IF result # None THEN Touch(d_recency, k) ELSE d_recency
        /\ cache_op' = [name |-> "get_definition", key |-> k, val |-> None, ret |-> result,
                        raised |-> FALSE, evicted |-> None]
    /\ UNCHANGED <<field_names, max_size, f_recency>>
    /\ UNCHANGED notCache

get_field_names(k) ==
    /\ hits + misses < MaxGets
    /\ LET result == DictGet(field_names, k) IN
        /\ hits' = IF result # None THEN hits + 1 ELSE hits
        /\ misses' = IF result # None THEN misses ELSE misses + 1
        /\ field_names' = AfterGet(field_names, k)
        /\ f_recency' = IF result # None THEN Touch(f_recency, k) ELSE f_recency
        /\ cache_op' = [name |-> "get_field_names", key |-> k, val |-> None, ret |-> result,
                        raised |-> FALSE, evicted |-> None]
    /\ UNCHANGED <<datatype_definitions, max_size, d_recency>>
    /\ UNCHANGED notCache

set_definition(k, v) ==
    /\ IF EvictRaises(datatype_definitions, max_size)
       THEN /\ cache_op' = [name |-> "set_definition", key |-> k, val |-> v,
                            ret |-> None, raised |-> TRUE, evicted |-> None]
            /\ UNCHANGED <<datatype_definitions, d_recency>>
       ELSE /\ datatype_definitions' = AfterSet(datatype_definitions, max_size, k, v)
            /\ cache_op' = [name |-> "set_definition", key |-> k, val |-> v,
                            ret |-> None, raised |-> FALSE,
                            evicted |-> EvictedKey(datatype_definitions, max_size)]
            /\ d_recency' = Touch(Forget(d_recency,
                                EvictedKey(datatype_definitions, max_size)), k)
    /\ UNCHANGED <<field_names, max_size, hits, misses, f_recency>>
    /\ UNCHANGED notCache

set_field_names(k, v) ==
    /\ IF EvictRaises(field_names, max_size)
       THEN /\ cache_op' = [name |-> "set_field_names", key |-> k, val |-> v,
                            ret |-> None, raised |-> TRUE, evicted |-> None]
            /\ UNCHANGED <<field_names, f_recency>>
       ELSE /\ field_names' = AfterSet(field_names, max_size, k, v)
            /\ cache_op' = [name |-> "set_field_names", key |-> k, val |-> v,
                            ret |-> None, raised |-> FALSE,
                            evicted |-> EvictedKey(field_names, max_size)]
            /\ f_recency' = Touch(Forget(f_recency,
                                EvictedKey(field_names, max_size)), k)
    /\ UNCHANGED <<datatype_definitions, max_size, hits, misses, d_recency>>
    /\ UNCHANGED notCache

clear ==
    /\ datatype_definitions' = <<>>
    /\ field_names' = <<>>
    /\ hits' = 0
    /\ misses' = 0
    /\ d_recency' = <<>>
    /\ f_recency' = <<>>
    /\ cache_op' = [name |-> "clear", key |-> None, val |-> None, ret |-> None,
                    raised |-> FALSE, evicted |-> None]
    /\ UNCHANGED max_size
    /\ UNCHANGED notCache

GetDefinitionStep == \E k \in CacheKeys : get_definition(k)
GetFieldNamesStep == \E k \in CacheKeys : get_field_names(k)
SetDefinitionStep == \E k \in CacheKeys, v \in CacheValues : set_definition(k, v)
SetFieldNamesStep == \E k \in CacheKeys, v \in CacheValues : set_field_names(k, v)

CacheNext ==
    \/ GetDefinitionStep
    \/ GetFieldNamesStep
    \/ SetDefinitionStep
    \/ SetFieldNamesStep
    \/ clear

\* ------------------------------------------------------------------------
\* Claims about the TypeCache
\* ------------------------------------------------------------------------

\* C5: in every reachable state each keyspace holds at most max_size entries.
C5_CapacityBound ==
    /\ Len(datatype_definitions) <= max_size
    /\ Len(field_names) <= max_size

\* C5 witness: a full keyspace out of which a set has just evicted an entry
C5_Witness ==
    /\ max_size = MaxCap
    /\ Len(datatype_definitions) = max_size
    /\ cache_op.name = "set_definition"
    /\ cache_op.evicted # None
    /\ Len(field_names) = max_size

IsSetOp(op) == op.name \in {"set_definition", "set_field_names"} /\ ~op.raised

\* C6: a set that inserts into a keyspace holding max_size entries removes
\* exactly one entry before inserting, and that entry is the one whose last
\* use (set, or get that returned it) is the oldest; the other entries stay.
C6_StepDef ==
    (/\ cache_op'.name = "set_definition" /\ ~cache_op'.raised
     /\ Len(datatype_definitions) = max_size
     /\ <<datatype_definitions, cache_op, d_recency>>' # <<datatype_definitions, cache_op, d_recency>>)
    => /\ cache_op'.evicted = Head(d_recency)
       /\ SeqKeys(datatype_definitions') =
            (SeqKeys(datatype_definitions) \ {Head(d_recency)}) \cup {cache_op'.key}

C6_StepFld ==
    (/\ cache_op'.name = "set_field_names" /\ ~cache_op'.raised
     /\ Len(field_names) = max_size
     /\ <<field_names, cache_op, f_recency>>' # <<field_names, cache_op, f_recency>>)
    => /\ cache_op'.evicted = Head(f_recency)
       /\ SeqKeys(field_names') =
            (SeqKeys(field_names) \ {Head(f_recency)}) \cup {cache_op'.key}

C6_EvictsLeastRecentlyUsed == [][C6_StepDef /\ C6_StepFld]_vars

\* C6 witness: a set has evicted an entry from a full keyspace after a get hit
C6_Witness ==
    /\ cache_op.name = "set_definition"
    /\ cache_op.evicted # None
    /\ hits > 0
    /\ max_size = MaxCap

\* ------------------------------------------------------------------------
\* Python values and wire variants (src/opcua/core/type_conversion.py)
\* ------------------------------------------------------------------------
\* A Python value: its type tag t, a number n (the int, 0/1 for a bool) and
\* the items of a list.
PyInt(i) == [t |-> "int", n |-> i, items |-> <<>>]
PyBool(b) == [t |-> "bool", n |-> IF b THEN 1 ELSE 0, items |-> <<>>]
PyList(s) == [t |-> "list", n |-> 0, items |-> s]
PyDict == [t |-> "dict", n |-> 0, items |-> <<>>]
PyNone == [t |-> "none", n |-> 0, items |-> <<>>]
\* str(value): the text rendering of a value
PyStr(v) == [t |-> "str", n |-> 0, items |-> <<v>>]

\* bool(value): zero, None and empty containers are falsy; a dict value of a
\* request is a non-empty mapping
PyTruth(v) ==
    CASE v.t = "int" -> PyBool(v.n # 0)
      [] v.t = "bool" -> v
      [] v.t = "list" -> PyBool(Len(v.items) > 0)
      [] v.t = "dict" -> PyBool(TRUE)
      [] OTHER -> PyBool(FALSE)

\* a float, a text and a tuple as Python values
PyFloat(x) == [t |-> "float", n |-> x, items |-> <<>>]
PyText(s) == [t |-> "str", n |-> 0, items |-> <<s>>]
PyTuple(s) == [t |-> "tuple", n |-> 0, items |-> s]

\* the variant type python_to_variant infers for a sequence from
\* `first_type = type(value[0])`
FirstElementType(first) ==
    CASE first.t = "bool" -> "Boolean"
      [] first.t = "int" -> "Int32"
      [] first.t = "float" -> "Double"
      [] first.t = "str" -> "String"
      [] OTHER -> "Variant"

\* python_to_variant(value, prefer_type): the variant [vtype, value]
python_to_variant(value, prefer_type) ==
    IF value.t = "none" THEN [vtype |-> "Null", value |-> PyNone]
    ELSE IF prefer_type # None /\ prefer_type # "Variant"
         THEN [vtype |-> prefer_type, value |-> value]
    ELSE IF value.t = "bool" THEN [vtype |-> "Boolean", value |-> value]
    ELSE IF value.t = "int" THEN [vtype |-> "Int32", value |-> value]
    ELSE IF value.t = "float" THEN [vtype |-> "Double", value |-> value]
    ELSE IF value.t = "str" THEN [vtype |-> "String", value |-> value]
    ELSE IF value.t \in {"list", "tuple"} THEN
         IF Len(value.items) = 0 THEN [vtype |-> "Null", value |-> PyList(<<>>)]
         ELSE [vtype |-> FirstElementType(value.items[1]), value |-> PyList(value.items)]
    ELSE [vtype |-> "String", value |-> PyStr(value)]

\* ------------------------------------------------------------------------
\* The address-space snapshot the writer runs against (the collaborator's
\* get_children / read_browse_name / read_display_name / read_node_class /
\* read_data_type answers)
\* ------------------------------------------------------------------------
TARGET_OBJECT_NAME == "ePAC:Project"

\* client.get_objects_node()
ObjectsNode == "Objects"

\* node.get_children(): ordered
Children(n) ==
    CASE n = "Objects" -> <<"Server", "R", "T">>
      [] n = "R" -> <<"a", "s", "o">>
      [] n = "a" -> <<"b", "c", "d">>
      [] n = "o" -> <<"x">>
      [] n = "T" -> <<"t1", "t2", "e">>
      [] n = "t2" -> <<"g">>
      [] OTHER -> <<>>

\* (await node.read_display_name()).Text
DisplayName(n) ==
    CASE n = "R" -> TARGET_OBJECT_NAME
      [] n = "t1" -> "m1"
      [] n = "t2" -> "m"
      [] n = "e" -> ""
      [] OTHER -> n

\* (await node.read_browse_name()).Name
BrowseName(n) ==
    CASE n = "c" -> "c2"
      [] n = "R" -> "Project"
      [] n = "t1" -> "m"
      [] n = "t2" -> "k"
      [] n = "e" -> ""
      [] OTHER -> n

\* await node.read_node_class()
NodeClass(n) ==
    IF n \in {"Objects", "Server", "R", "o", "T", "t2"} THEN "Object" ELSE "Variable"

\* the browse name of the node's data type (read_data_type, get_node)
DataTypeName(n) ==
    CASE n = "b" -> "Boolean"
      [] n \in {"c", "d", "s"} -> "Int32"
      [] OTHER -> "Structure"

VariableNodes == {"a", "b", "c", "d", "s", "x"}

\* get_node_variant_type: the type_mapping table, Variant for any other name
\* and for a node whose data type cannot be read
get_node_variant_type(node) ==
    IF NodeClass(node) # "Variable" THEN "Variant"
    ELSE IF DataTypeName(node) \in {"Boolean", "SByte", "Byte", "Int16", "UInt16",
              "Int32", "UInt32", "Int64", "UInt64", "Float", "Double", "String",
              "DateTime", "ByteString"}
         THEN DataTypeName(node)
         ELSE "Variant"

\* ------------------------------------------------------------------------
\* Navigator: find_object_by_name, find_node_by_path
\* (src/opcua/navigation/navigator.py)
\* ------------------------------------------------------------------------
\* as FirstMatch, with the element at the greatest of the positions
FirstMatch_last(seq, passing) ==
    IF passing = {} THEN None
    ELSE seq[CHOOSE i \in passing : \A j \in passing : i >= j]

\* `for child in children: if <test>: return child`: the element of seq at the
\* least of the positions `passing` (those that pass the test), None when there
\* is none
FirstMatch(seq, passing) ==
    IF passing = {} THEN None
    ELSE seq[CHOOSE i \in passing : \A j \in passing : i <= j]

\* find_object_by_name: the first direct child of Objects whose display name
\* equals name
find_object_by_name(name) ==
    LET children == Children(ObjectsNode)
    IN  FirstMatch(children,
                   {i \in 1..Len(children) : DisplayName(children[i]) = name})

RECURSIVE WalkPath(_, _)
\* the loop `for part in parts` of find_node_by_path
WalkPath(current_node, parts) ==
    IF parts = <<>> THEN current_node
    ELSE LET children == Children(current_node)
             child == FirstMatch(children,
                        {i \in 1..Len(children) :
                            \/ BrowseName(children[i]) = Head(parts)
                            \/ DisplayName(children[i]) = Head(parts)})
         IN  IF child = None THEN None ELSE WalkPath(child, Tail(parts))

\* find_node_by_path(client, path, root_object_name); path is the string as
\* its split('.') image
find_node_by_path(path, root_object_name) ==
    LET root == find_object_by_name(
                    IF root_object_name = None THEN TARGET_OBJECT_NAME
                    ELSE root_object_name)
    IN  IF root = None THEN None ELSE WalkPath(root, path)

\* ------------------------------------------------------------------------
\* write_values (src/opcua/client/writer.py)
\* ------------------------------------------------------------------------
MaxReq == 3        \* entries of a request map

\* A key of the input map: a string, held as its split('.') image (so "" is
\* <<"">> and "a..b" is <<"a", "", "b">>), or a non-string key, held with the
\* split image of its str() form.
StrKey(segs) == [isstr |-> TRUE, segs |-> segs]
NonStrKey(segs) == [isstr |-> FALSE, segs |-> segs]

\* str(path) of a key, as a result-map key
KeyStr(path) == path.segs

\* dict assignment on a map held as a function
Put(m, k, v) == [x \in DOMAIN m \cup {k} |-> IF x = k THEN v ELSE m[x]]

\* `[p for p in parts if p]`
DropEmpty(parts) == SelectSeq(parts, LAMBDA p : p # "")

\* as InvalidPath, without the test that the key is a string
InvalidPath_strs(path) == path.segs = <<"">>

\* `not path or not isinstance(path, str)`
InvalidPath(path) == ~path.isstr \/ path.segs = <<"">>

RECURSIVE GroupWrites(_, _, _)
\* the validation and grouping loop: [results, grouped]; grouped is the
\* ordered dict parent_path -> ordered dict field_name -> value
GroupWrites(data, results, grouped) ==
    IF data = <<>> THEN [results |-> results, grouped |-> grouped]
    ELSE LET path == Head(data).path
             value == Head(data).value
             parts == DropEmpty(path.segs)
         IN  IF InvalidPath(path)
             THEN GroupWrites(Tail(data), Put(results, KeyStr(path), FALSE), grouped)
             ELSE IF parts = <<>>
             THEN GroupWrites(Tail(data), Put(results, path.segs, FALSE), grouped)
             ELSE IF Len(parts) >= 2
             THEN LET parent_path == SubSeq(parts, 1, Len(parts) - 1)
                      field_name == parts[Len(parts)]
                      g0 == IF parent_path \in SeqKeys(grouped) THEN grouped
                            ELSE DictSet(grouped, parent_path, <<>>)
                  IN  GroupWrites(Tail(data), results,
                        DictSet(g0, parent_path,
                                DictSet(DictGet(g0, parent_path), field_name, value)))
             ELSE GroupWrites(Tail(data), results,
                        DictSet(grouped, path.segs, <<[key |-> None, val |-> value]>>))

\* `f"{parent_path}.{field_name}" if field_name else parent_path`
FullPath(parent_path, field_name) ==
    IF field_name # None THEN Append(parent_path, field_name) ELSE parent_path

\* a failing group that records nothing
MarkGroupFailed_none(results, parent_path, fields) == results

\* `for field_name in fields.keys(): results[full_path] = False`
MarkGroupFailed(results, parent_path, fields) ==
    LET ks == {FullPath(parent_path, fields[i].key) : i \in 1..Len(fields)}
    IN  [k \in DOMAIN results \cup ks |-> IF k \in ks THEN FALSE ELSE results[k]]

NoIndex == -1

\* _get_array_field_index: the 0-based position of the first child whose
\* display name or browse name equals field_name, NoIndex for None
get_array_field_index(node, field_name) ==
    LET children == Children(node)
        Hit(i) == DisplayName(children[i]) = field_name \/ BrowseName(children[i]) = field_name
    IN  IF \E i \in 1..Len(children) : Hit(i)
        THEN (CHOOSE i \in 1..Len(children) : Hit(i) /\ \A j \in 1..(i - 1) : ~Hit(j)) - 1
        ELSE NoIndex

\* as ArrayElement, without the coercion
ArrayElement_raw(parent_node, index, value, auto_convert) == value

\* the element stored at new_array[index]: bool(value) when auto_convert and
\* the child at that index has wire type Boolean, the value otherwise
ArrayElement(parent_node, index, value, auto_convert) ==
    IF auto_convert /\ index < Len(Children(parent_node))
                    /\ get_node_variant_type(Children(parent_node)[index + 1]) = "Boolean"
    THEN PyTruth(value)
    ELSE value

RECURSIVE ArrayFields(_, _, _, _, _, _)
\* the loop over the fields of an array group: [arr, results]
ArrayFields(fields, parent_node, parent_path, new_array, results, auto_convert) ==
    IF fields = <<>> THEN [arr |-> new_array, results |-> results]
    ELSE LET field_name == Head(fields).key
             value == Head(fields).val
             index == get_array_field_index(parent_node, field_name)
             full_path == Append(parent_path, field_name)
         IN  IF field_name = None
             THEN ArrayFields(Tail(fields), parent_node, parent_path, new_array,
                              results, auto_convert)
             ELSE IF index = NoIndex \/ index >= Len(new_array)
             THEN ArrayFields(Tail(fields), parent_node, parent_path, new_array,
                              Put(results, full_path, FALSE), auto_convert)
             ELSE ArrayFields(Tail(fields), parent_node, parent_path,
                              [new_array EXCEPT ![index + 1] =
                                    ArrayElement(parent_node, index, value, auto_convert)],
                              Put(results, full_path, TRUE), auto_convert)

\* node.write_value raises: the server refuses, or the node has no value
WriteRaises(node, failing) == node \in failing \/ NodeClass(node) # "Variable"

\* one write_value call: the log entry and the server's values after it
Issue(st, parent_path, node, variant, failing) ==
    [st EXCEPT !.log = Append(@, [group |-> parent_path, node |-> node,
                                  variant |-> variant,
                                  ok |-> ~WriteRaises(node, failing)]),
               !.values = IF WriteRaises(node, failing) THEN @
                          ELSE [@ EXCEPT ![node] = variant.value]]

\* the variant written: the node's declared wire type is preferred when
\* auto_convert
VariantFor(node, value, auto_convert) ==
    IF auto_convert THEN python_to_variant(value, get_node_variant_type(node))
    ELSE python_to_variant(value, None)

\* the array branch of a group: assemble new_array, then one write_value of the
\* whole array; a raise reaches the outer except, which marks every field False
WriteArrayGroup(st, parent_path, parent_node, fields, current_value, auto_convert, failing) ==
    LET built == ArrayFields(fields, parent_node, parent_path, current_value.items,
                             st.results, auto_convert)
        variant == VariantFor(parent_node, PyList(built.arr), auto_convert)
        st1 == Issue([st EXCEPT !.results = built.results], parent_path,
                     parent_node, variant, failing)
    IN  IF WriteRaises(parent_node, failing)
        THEN [st1 EXCEPT !.results = MarkGroupFailed(@, parent_path, fields)]
        ELSE st1

RECURSIVE WriteSingleFields(_, _, _, _, _, _, _)
\* the plain branch of a group: one resolution and one write_value per field
WriteSingleFields(st, parent_path, parent_node, fields, root, auto_convert, failing) ==
    IF fields = <<>> THEN st
    ELSE LET field_name == Head(fields).key
             value == Head(fields).val
             full_path == FullPath(parent_path, field_name)
             node == IF field_name # None THEN find_node_by_path(full_path, root)
                     ELSE parent_node
             st1 == IF node = None \/ value.t = "dict"
                    THEN [st EXCEPT !.results = Put(@, full_path, FALSE)]
                    ELSE LET w == Issue(st, parent_path, node,
                                        VariantFor(node, value, auto_convert), failing)
                         IN  [w EXCEPT !.results =
                                    Put(@, full_path, ~WriteRaises(node, failing))]
         IN  WriteSingleFields(st1, parent_path, parent_node, Tail(fields), root,
                               auto_convert, failing)

\* the array branch is taken from three fields on only
UseArrayBatch_gt2(is_array, fields, current_value) ==
    is_array /\ Len(fields) > 2 /\ current_value # PyNone

\* `if is_array and len(fields) > 1 and current_value is not None`
UseArrayBatch(is_array, fields, current_value) ==
    is_array /\ Len(fields) > 1 /\ current_value # PyNone

\* parent_node.read_value(): raises on a node that has no value
ReadRaises(node) == NodeClass(node) # "Variable"

\* the body of `for parent_path, fields in grouped_writes.items()`
ProcessGroup(st, parent_path, fields, root, auto_convert, failing) ==
    LET parent_node == find_node_by_path(parent_path, root)
        current_value == IF parent_node = None \/ ReadRaises(parent_node) THEN PyNone
                         ELSE st.values[parent_node]
        is_array == parent_node # None /\ ~ReadRaises(parent_node)
                        /\ current_value.t = "list"
    IN  IF parent_node = None
        THEN [st EXCEPT !.results = MarkGroupFailed(@, parent_path, fields)]
        ELSE IF UseArrayBatch(is_array, fields, current_value)
        THEN WriteArrayGroup(st, parent_path, parent_node, fields, current_value,
                             auto_convert, failing)
        ELSE WriteSingleFields(st, parent_path, parent_node, fields, root,
                               auto_convert, failing)

RECURSIVE ProcessGroups(_, _, _, _, _)
ProcessGroups(st, grouped, root, auto_convert, failing) ==
    IF grouped = <<>> THEN st
    ELSE ProcessGroups(
            ProcessGroup(st, Head(grouped).key, Head(grouped).val, root,
                         auto_convert, failing),
            Tail(grouped), root, auto_convert, failing)

\* write_values(client, data, root_object_name, auto_convert) against a server
\* holding `values`: [results, log, values]
write_values(data, root_object_name, auto_convert, failing, values) ==
    LET g == GroupWrites(data, <<>>, <<>>)
    IN  ProcessGroups([results |-> g.results, log |-> <<>>, values |-> values],
                      g.grouped, root_object_name, auto_convert, failing)

\* ---- the requests and snapshots explored ----
\* the keys a request map is built from: fields of the array `a` (found,
\* out of range, unknown, addressed by browse name), `a` itself, a key with an
\* empty segment, a scalar, a field of an object, fields of an unknown parent,
\* the empty string, dots only, and a key that is no string
WPaths == {
    StrKey(<<"a", "b">>), StrKey(<<"a", "c">>), StrKey(<<"a", "d">>),
    StrKey(<<"a", "q">>), StrKey(<<"a", "c2">>), StrKey(<<"a">>), StrKey(<<"a", "", "b">>),
    StrKey(<<"s">>), StrKey(<<"o", "x">>), StrKey(<<"z", "y">>), StrKey(<<"z", "w">>),
    StrKey(<<"">>), StrKey(<<"", "", "", "">>), NonStrKey(<<"5">>) }

\* the values the server holds before the call: `a` is an array of two
\* elements with three children, so child `d` is out of range
InitialValues ==
    [n \in VariableNodes |->
        IF n = "a" THEN PyList(<<PyBool(FALSE), PyInt(0)>>)
        ELSE IF n = "b" THEN PyBool(FALSE) ELSE PyInt(0)]

WriteInit ==
    /\ w_data = <<>>
    /\ w_auto_convert = TRUE
    /\ w_failing \in {{}, {"a", "s"}}
    /\ w_value = InitialValues
    /\ w_results = <<>>
    /\ w_log = <<>>
    /\ w_phase = "ready"

\* the caller puts one more entry into the map it will pass: the i-th entry
\* carries the value i, and at most one entry carries a mapping
AddEntry(path, value) ==
    /\ w_phase = "ready"
    /\ Len(w_data) < MaxReq
    /\ \A i \in 1..Len(w_data) : w_data[i].path # path
    /\ value = PyDict => \A i \in 1..Len(w_data) : w_data[i].value # PyDict
    /\ w_data' = Append(w_data, [path |-> path, value |-> value])
    /\ UNCHANGED <<w_auto_convert, w_failing, w_value, w_results, w_log, w_phase>>
    /\ UNCHANGED notWrite

AddEntryStep == \E path \in WPaths, value \in {PyInt(Len(w_data) + 1), PyDict} : AddEntry(path, value)

\* one call write_values(client, data, TARGET_OBJECT_NAME, auto_convert)
WriteCall(auto_convert) ==
    /\ w_phase = "ready"
    /\ \E out \in {write_values(w_data, TARGET_OBJECT_NAME, auto_convert, w_failing, w_value)} :
           /\ w_results' = out.results
           /\ w_log' = out.log
           /\ w_value' = out.values
    /\ w_auto_convert' = auto_convert
    /\ w_phase' = "returned"
    /\ UNCHANGED <<w_data, w_failing>>
    /\ UNCHANGED notWrite

WriteCallStep == \E auto_convert \in BOOLEAN : WriteCall(auto_convert)

WriteNext == AddEntryStep \/ WriteCallStep

\* ------------------------------------------------------------------------
\* find_specific_object (src/opcua/navigation/navigator.py), one step per
\* await-delimited stretch of an activation
\* ------------------------------------------------------------------------
MaxLevel == 2      \* max_level ranges over 0..MaxLevel

DEFAULT_MAX_DEPTH == 10

\* no activation is ever deeper than level max_level + 1
MaxStack == DEFAULT_MAX_DEPTH + 2

FNodes == {"A", "B", "C"}

\* the get_children() answers explored: no child, a self reference, a
\* reference to any node, two children
FChildLists == {<<>>, <<"A">>, <<"B">>, <<"C">>, <<"B", "C">>}

NoRet == "NoRet"

Frame(node, level) == [node |-> node, level |-> level, pc |-> "enter", idx |-> 0]

Top == f_stack[Len(f_stack)]

\* a search that neither bounds the level nor remembers where it has been
SearchStops_never(level, max_level, node_id, visited) == FALSE

\* `if level > max_level: return None` and `if node_id in visited: return None`
SearchStops(level, max_level, node_id, visited) ==
    level > max_level \/ node_id \in visited

\* `return x` of the innermost activation
FindReturn(x) ==
    /\ f_stack' = SubSeq(f_stack, 1, Len(f_stack) - 1)
    /\ f_ret' = x

\* the state at the entry of find_specific_object(root, target, 0, max_level)
FindStart(children, match, failing, max_level, root) ==
    /\ f_children = children
    /\ f_match = match
    /\ f_failing = failing
    /\ f_max_level = max_level
    /\ f_root = root
    /\ f_stack = <<Frame(root, 0)>>
    /\ f_visited = {}
    /\ f_log = <<>>
    /\ f_ret = NoRet
    /\ f_result = None
    /\ f_phase = "running"

FindInit ==
    \E children \in [FNodes -> FChildLists], match \in SUBSET FNodes,
       failing \in {{}, {"B"}}, max_level \in 0..MaxLevel :
        FindStart(children, match, failing, max_level, "A")

\* address spaces in which a node is reached by paths of different lengths:
\* r -> a -> x -> b is the long way to b, r -> b the short one, and c, t lie
\* below b
MaxDeepLevel == 3  \* max_level ranges over 0..MaxDeepLevel

DeepNodes == {"r", "a", "x", "b", "c", "t"}

\* the get_children() answers each node of DeepNodes may give
DeepChildLists(n) ==
    CASE n = "r" -> {<<"a">>, <<"a", "b">>, <<"b", "a">>}
      [] n = "a" -> {<<>>, <<"x">>}
      [] n = "x" -> {<<>>, <<"b">>}
      [] n = "b" -> {<<>>, <<"c">>}
      [] n = "c" -> {<<>>, <<"t">>, <<"r">>}
      [] OTHER -> {<<>>}

FindDeepInit ==
    \E cr \in DeepChildLists("r"), ca \in DeepChildLists("a"), cx \in DeepChildLists("x"),
       cb \in DeepChildLists("b"), cc \in DeepChildLists("c"),
       match \in SUBSET {"c", "t"}, failing \in {{}, {"x"}},
       max_level \in 0..MaxDeepLevel :
        FindStart([n \in DeepNodes |->
                      CASE n = "r" -> cr [] n = "a" -> ca [] n = "x" -> cx
                        [] n = "b" -> cb [] n = "c" -> cc [] OTHER -> <<>>],
                  match, failing, max_level, "r")

\* entry of an activation: the level test, the visited test, visited.add, the
\* test of the node itself, get_children
FindEnter ==
    /\ f_phase = "running" /\ f_ret = NoRet /\ f_stack # <<>>
    /\ Top.pc = "enter"
    /\ IF SearchStops(Top.level, f_max_level, Top.node, f_visited)
       THEN FindReturn(None) /\ UNCHANGED <<f_visited, f_log>>
       ELSE /\ f_visited' = f_visited \cup {Top.node}
            /\ IF Top.node \in f_failing
               THEN FindReturn(None) /\ f_log' = Append(f_log, <<"enter", Top.node>>)
               ELSE IF Top.node \in f_match
               THEN FindReturn(Top.node) /\ f_log' = Append(f_log, <<"enter", Top.node>>)
               ELSE /\ f_stack' = [f_stack EXCEPT ![Len(f_stack)].pc = "check"]
                    /\ f_ret' = NoRet
                    /\ f_log' = f_log \o <<<<"enter", Top.node>>, <<"children", Top.node>>>>
    /\ UNCHANGED <<f_children, f_match, f_failing, f_max_level, f_root, f_result, f_phase>>
    /\ UNCHANGED notFind

\* every child is read by check_child
Probed_all(children, visited) == children

\* the children check_child reads: `if child_id in visited: return None`
\* comes before the reads
Probed(children, visited) == SelectSeq(children, LAMBDA c : c \notin visited)

\* check_child: the child itself, when it is not visited, can be read, is an
\* Object and carries the target name
CheckChild(child) ==
    IF child \notin f_visited /\ child \notin f_failing /\ child \in f_match
    THEN child ELSE None

\* the gather over check_child and the scan of its results in children order
FindCheckChildren ==
    /\ f_phase = "running" /\ f_ret = NoRet /\ f_stack # <<>>
    /\ Top.pc = "check"
    /\ LET children == f_children[Top.node]
           hit == FirstMatch(children,
                             {i \in 1..Len(children) : CheckChild(children[i]) # None})
           probed == Probed(children, f_visited)
       IN  /\ f_log' = f_log \o [i \in 1..Len(probed) |-> <<"check", probed[i]>>]
           /\ IF hit # None
              THEN FindReturn(hit)
              ELSE /\ f_stack' = [f_stack EXCEPT ![Len(f_stack)].pc = "recurse",
                                                 ![Len(f_stack)].idx = 1]
                   /\ f_ret' = NoRet
    /\ UNCHANGED <<f_children, f_match, f_failing, f_max_level, f_root, f_visited,
                   f_result, f_phase>>
    /\ UNCHANGED notFind

\* `for child in children: result = await find_specific_object(child, ...,
\* level + 1, ...)`: the next recursive call, or `return None` after the last
FindRecurse ==
    /\ f_phase = "running" /\ f_ret = NoRet /\ f_stack # <<>>
    /\ Top.pc = "recurse"
    /\ IF Top.idx > Len(f_children[Top.node])
       THEN FindReturn(None)
       ELSE /\ Len(f_stack) < MaxStack
            /\ f_stack' = Append([f_stack EXCEPT ![Len(f_stack)].pc = "await"],
                                 Frame(f_children[Top.node][Top.idx], Top.level + 1))
            /\ f_ret' = NoRet
    /\ UNCHANGED <<f_children, f_match, f_failing, f_max_level, f_root, f_visited,
                   f_log, f_result, f_phase>>
    /\ UNCHANGED notFind

\* `if result is not None: return result`, else on to the next child
FindResume ==
    /\ f_phase = "running" /\ f_ret # NoRet /\ f_stack # <<>>
    /\ IF f_ret # None
       THEN FindReturn(f_ret)
       ELSE /\ f_stack' = [f_stack EXCEPT ![Len(f_stack)].pc = "recurse",
                                          ![Len(f_stack)].idx = @ + 1]
            /\ f_ret' = NoRet
    /\ UNCHANGED <<f_children, f_match, f_failing, f_max_level, f_root, f_visited,
                   f_log, f_result, f_phase>>
    /\ UNCHANGED notFind

\* the top-level call returns to its caller
FindFinish ==
    /\ f_phase = "running" /\ f_ret # NoRet /\ f_stack = <<>>
    /\ f_result' = f_ret
    /\ f_ret' = NoRet
    /\ f_phase' = "done"
    /\ UNCHANGED <<f_children, f_match, f_failing, f_max_level, f_root, f_stack, f_visited,
                   f_log>>
    /\ UNCHANGED notFind

FindNext ==
    \/ FindEnter
    \/ FindCheckChildren
    \/ FindRecurse
    \/ FindResume
    \/ FindFinish

\* ------------------------------------------------------------------------
\* get_child_objects (src/opcua/navigation/navigator.py): one process_child
\* task per child, named by the path of nodes from the root's child down
\* ------------------------------------------------------------------------
MaxListLevel == 1  \* max_level ranges over 0..MaxListLevel
MaxConc == 2       \* max_concurrent ranges over 1..MaxConc

LRoot == "r"

LNodes == {"r", "p", "q", "p1"}

\* the address spaces explored: a shared leaf, and a cycle r -> p -> r
ListGraphs == {
    [n \in LNodes |-> CASE n = "r" -> <<"p", "q">>
                        [] n = "p" -> <<"p1", "q">>
                        [] n = "q" -> <<"p1">>
                        [] OTHER -> <<>>],
    [n \in LNodes |-> CASE n = "r" -> <<"p", "q">>
                        [] n = "p" -> <<"r">>
                        [] n = "q" -> <<"p">>
                        [] OTHER -> <<>>] }

NodeOf(path) == IF path = <<>> THEN LRoot ELSE path[Len(path)]

ParentOf(path) == SubSeq(path, 1, Len(path) - 1)

\* the tasks gather creates for the children of the node at path
ChildTasks(path) == {Append(path, l_children[NodeOf(path)][i]) :
                        i \in 1..Len(l_children[NodeOf(path)])}

RECURSIVE ConcatRets(_, _)
\* `for result in results: child_objects.extend(result)`, in children order
ConcatRets(path, kids) ==
    IF kids = <<>> THEN <<>>
    ELSE l_task[Append(path, Head(kids))].ret \o ConcatRets(path, Tail(kids))

\* asyncio.Semaphore wakes its waiters first come first served, and the tasks
\* of one gather reach `async with semaphore` in children order
FirstWaiting(path) ==
    LET kids == l_children[NodeOf(ParentOf(path))]
        me == CHOOSE i \in 1..Len(kids) : kids[i] = NodeOf(path)
    IN  \A j \in 1..(me - 1) : l_task[Append(ParentOf(path), kids[j])].st # "waiting"

\* a permit that is never given back
Release_kept(sem, path) == sem

\* semaphore.__aexit__ of the task at path
Release(sem, path) == [sem EXCEPT ![ParentOf(path)] = @ + 1]

ListInit ==
    /\ l_children \in ListGraphs
    /\ l_objects \in {{"p", "q", "p1", "r"}, {"p", "p1", "r"}, {"q"}, {"p1", "r"}}
    /\ l_failing \in {{}, {"q"}}
    /\ l_max_level \in 0..MaxListLevel
    /\ l_max_concurrent \in 1..MaxConc
    /\ l_task = <<>>
    /\ l_sem = <<>>
    /\ l_result = <<>>
    /\ l_phase = "ready"

\* get_child_objects(root, 0, max_level, max_concurrent) up to its gather:
\* get_children, a new Semaphore(max_concurrent), one task per child
ListCall ==
    /\ l_phase = "ready"
    /\ l_task' = [p \in ChildTasks(<<>>) |-> [st |-> "waiting", ret |-> <<>>]]
    /\ l_sem' = [p \in {<<>>} |-> l_max_concurrent]
    /\ l_phase' = "running"
    /\ UNCHANGED <<l_children, l_objects, l_failing, l_max_level, l_max_concurrent, l_result>>
    /\ UNCHANGED notList

\* `async with semaphore`: the task takes a permit of the semaphore of the call
\* that created it
ListAcquire(path) ==
    /\ l_phase = "running"
    /\ l_task[path].st = "waiting"
    /\ l_sem[ParentOf(path)] > 0
    /\ FirstWaiting(path)
    /\ l_task' = [l_task EXCEPT ![path].st = "reading"]
    /\ l_sem' = [l_sem EXCEPT ![ParentOf(path)] = @ - 1]
    /\ UNCHANGED <<l_children, l_objects, l_failing, l_max_level, l_max_concurrent,
                   l_result, l_phase>>
    /\ UNCHANGED notList

\* read_display_name, read_node_class and, for an Object, the nested
\* get_child_objects(child, level + 1, ...) up to its gather.  The task ends
\* here when the read raises, when the child is no Object, and when the nested
\* call returns at once (level + 1 > max_level, or no children).
ListRead(path) ==
    /\ l_phase = "running"
    /\ l_task[path].st = "reading"
    /\ IF NodeOf(path) \in l_failing \/ NodeOf(path) \notin l_objects
       THEN /\ l_task' = [l_task EXCEPT ![path] = [st |-> "done", ret |-> <<>>]]
            /\ l_sem' = Release(l_sem, path)
       ELSE IF Len(path) > l_max_level \/ l_children[NodeOf(path)] = <<>>
       THEN /\ l_task' = [l_task EXCEPT ![path] = [st |-> "done", ret |-> <<NodeOf(path)>>]]
            /\ l_sem' = Release(l_sem, path)
       ELSE /\ l_task' = [p \in DOMAIN l_task \cup ChildTasks(path) |->
                            IF p = path THEN [st |-> "nested", ret |-> <<>>]
                            ELSE IF p \in ChildTasks(path) THEN [st |-> "waiting", ret |-> <<>>]
                            ELSE l_task[p]]
            /\ l_sem' = [p \in DOMAIN l_sem \cup {path} |->
                            IF p = path THEN l_max_concurrent ELSE l_sem[p]]
    /\ UNCHANGED <<l_children, l_objects, l_failing, l_max_level, l_max_concurrent,
                   l_result, l_phase>>
    /\ UNCHANGED notList

\* the nested gather has finished: `return [(child, child_name.Text)] + nested`
\* and the permit goes back
ListJoin(path) ==
    /\ l_phase = "running"
    /\ l_task[path].st = "nested"
    /\ \A p \in ChildTasks(path) : l_task[p].st = "done"
    /\ l_task' = [l_task EXCEPT ![path] =
                    [st |-> "done",
                     ret |-> <<NodeOf(path)>> \o ConcatRets(path, l_children[NodeOf(path)])]]
    /\ l_sem' = Release(l_sem, path)
    /\ UNCHANGED <<l_children, l_objects, l_failing, l_max_level, l_max_concurrent,
                   l_result, l_phase>>
    /\ UNCHANGED notList

\* the top-level gather has finished: `return child_objects`
ListReturn ==
    /\ l_phase = "running"
    /\ \A p \in ChildTasks(<<>>) : l_task[p].st = "done"
    /\ l_result' = ConcatRets(<<>>, l_children[LRoot])
    /\ l_phase' = "returned"
    /\ UNCHANGED <<l_children, l_objects, l_failing, l_max_level, l_max_concurrent,
                   l_task, l_sem>>
    /\ UNCHANGED notList

ListAcquireStep == \E path \in DOMAIN l_task : ListAcquire(path)
ListReadStep == \E path \in DOMAIN l_task : ListRead(path)
ListJoinStep == \E path \in DOMAIN l_task : ListJoin(path)

ListNext ==
    \/ ListCall
    \/ ListAcquireStep
    \/ ListReadStep
    \/ ListJoinStep
    \/ ListReturn

\* ------------------------------------------------------------------------
\* OPCUAWriter (src/opcua/client/writer.py) and OPCUAReader (opcua/reader.py):
\* construction, connect, disconnect, the guarded operations and the
\* `async with` form
\* ------------------------------------------------------------------------
MaxCalls == 4      \* calls made on the two objects together; one caller, so
                   \* a call starts when the previous one has returned

\* `max_size: int = 1000` of TypeCache.__init__
DEFAULT_CACHE_SIZE == 1000

AddrNodes == {"Objects", "Server", "R", "a", "s", "o", "b", "c", "d", "x",
              "T", "t1", "t2", "g", "e"}

NoCall == [obj |-> None, name |-> None, outcome |-> None, sent |-> FALSE]

Call(obj, name, outcome, sent) ==
    [obj |-> obj, name |-> name, outcome |-> outcome, sent |-> sent]

\* the request written in the connection life cycle
ConnData == <<[path |-> StrKey(<<"a", "b">>), value |-> PyInt(1)],
              [path |-> StrKey(<<"s">>), value |-> PyInt(2)]>>

RECURSIVE MarkAllFailed(_, _)
\* write_values on a client without a session: every browse raises inside
\* find_object_by_name, which answers None, so every group is marked failed
MarkAllFailed(results, grouped) ==
    IF grouped = <<>> THEN results
    ELSE MarkAllFailed(MarkGroupFailed(results, Head(grouped).key, Head(grouped).val),
                       Tail(grouped))

\* a url argument: a str as its characters, or None
UrlStr(chars) == [t |-> "str", chars |-> chars]
UrlNone == [t |-> "none", chars |-> <<>>]

OpcPrefix == <<"o", "p", "c", ".", "t", "c", "p", ":", "/", "/">>

\* the url arguments tried: a well-formed one, another scheme, "" and None
Urls == {UrlStr(OpcPrefix \o <<"h">>),
         UrlStr(<<"h", "t", "t", "p", ":", "/", "/", "h">>),
         UrlStr(<<>>),
         UrlNone}

\* str.startswith
StartsWith(chars, prefix) ==
    Len(chars) >= Len(prefix) /\ SubSeq(chars, 1, Len(prefix)) = prefix

\* OPCUAWriter.__init__ returns an object: neither ValueError is raised
WriterInitAccepts(url) ==
    /\ ~(url.t = "none" \/ url.chars = <<>> \/ url.t # "str")
    /\ StartsWith(url.chars, OpcPrefix)

\* OPCUAReader.__init__ stores the url as given
ReaderInitAccepts(url) == TRUE

\* `if not self.client: raise RuntimeError(...)` of OPCUAWriter.write
WriterAccepts(client) == client # None

\* `if not self.client or not self._epac_node: raise RuntimeError(...)`
ReaderAccepts(client, epac) == client # None /\ epac # None

ConnInit ==
    /\ cw_url \in Urls
    /\ cr_url \in Urls
    /\ cw_client = None
    /\ cw_ok = FALSE
    /\ cw_scope = "none"
    /\ cw_pending = FALSE
    /\ cr_client = None
    /\ cr_epac = None
    /\ cr_target \in {TARGET_OBJECT_NAME, "Missing"}
    /\ cr_ok = FALSE
    /\ cr_phase = "idle"
    /\ cr_scope = "none"
    /\ cr_pending = FALSE
    /\ c_op = NoCall
    /\ c_calls = 0
    \* `self.cache = TypeCache()` of OPCUAReader.__init__
    /\ datatype_definitions = <<>>
    /\ field_names = <<>>
    /\ max_size = DEFAULT_CACHE_SIZE
    /\ hits = 0
    /\ misses = 0
    /\ cache_op = NoOp
    /\ d_recency = <<>>
    /\ f_recency = <<>>
    \* the server and the request
    /\ w_data = ConnData
    /\ w_auto_convert = TRUE
    /\ w_failing = {}
    /\ w_value = InitialValues
    /\ w_results = <<>>
    /\ w_log = <<>>
    /\ w_phase = "idle"
    \* no search yet
    /\ f_children = [n \in AddrNodes |-> Children(n)]
    /\ f_match = {}
    /\ f_failing = {}
    /\ f_max_level = DEFAULT_MAX_DEPTH
    /\ f_root = ObjectsNode
    /\ f_stack = <<>>
    /\ f_visited = {}
    /\ f_log = <<>>
    /\ f_ret = NoRet
    /\ f_result = None
    /\ f_phase = "idle"

\* a call on the writer can start: the constructor returned an object, the
\* caller is not waiting in another call, and the object has not left its
\* `async with` block
WriterCallable ==
    /\ c_calls < MaxCalls
    /\ cr_phase = "idle"
    /\ WriterInitAccepts(cw_url)
    /\ cw_scope # "left"

ReaderCallable ==
    /\ c_calls < MaxCalls
    /\ cr_phase = "idle"
    /\ ReaderInitAccepts(cr_url)
    /\ cr_scope # "left"

\* the body of OPCUAWriter.connect: the Client is stored first; the
\* collaborator's connect answers, does not answer within self.timeout
\* (RuntimeError) or raises
WriterConnects(name, answer) ==
    /\ cw_client' = IF answer = "ok" THEN "open" ELSE "closed"
    /\ cw_ok' = (answer = "ok")
    /\ cw_pending' = TRUE
    /\ c_op' = Call("writer", name,
                    CASE answer = "ok" -> "returned"
                      [] answer = "timeout" -> "timeout_error"
                      [] OTHER -> "connect_error",
                    answer = "ok")
    /\ c_calls' = c_calls + 1
    /\ UNCHANGED <<cw_url, cr_url, cr_client, cr_epac, cr_target, cr_ok, cr_phase,
                   cr_scope, cr_pending>>
    /\ UNCHANGED <<cacheVars, writeVars, findVars, listVars, readVars, pathVars, variantVars, formatVars, raceVars, discVars>>

\* OPCUAWriter.connect
WriterConnect(answer) ==
    /\ WriterCallable
    /\ WriterConnects("connect", answer)
    /\ UNCHANGED cw_scope

\* OPCUAWriter.__aenter__: `await self.connect()`; when it raises, the block
\* is left without __aexit__
WriterEnter(answer) ==
    /\ WriterCallable
    /\ cw_scope = "none"
    /\ WriterConnects("aenter", answer)
    /\ cw_scope' = IF answer = "ok" THEN "body" ELSE "left"

\* the body of OPCUAWriter.disconnect: with a client, the collaborator's
\* disconnect is awaited and, unless it raised, the client is dropped
WriterDisconnects(name, answer, outcome) ==
    /\ cw_client = None => answer = "ok"
    /\ cw_client' = IF answer = "ok" THEN None ELSE cw_client
    /\ cw_ok' = FALSE
    /\ cw_pending' = IF cw_client # None THEN FALSE ELSE cw_pending
    /\ c_op' = Call("writer", name, outcome, cw_client = "open")
    /\ c_calls' = c_calls + 1
    /\ UNCHANGED <<cw_url, cr_url, cr_client, cr_epac, cr_target, cr_ok, cr_phase,
                   cr_scope, cr_pending>>
    /\ UNCHANGED <<cacheVars, writeVars, findVars, listVars, readVars, pathVars, variantVars, formatVars, raceVars, discVars>>

\* OPCUAWriter.disconnect
WriterDisconnect(answer) ==
    /\ WriterCallable
    /\ WriterDisconnects("disconnect", answer,
                         IF answer = "ok" THEN "returned" ELSE "disconnect_error")
    /\ UNCHANGED cw_scope

\* OPCUAWriter.__aexit__: disconnect inside try / except Exception: pass
WriterExit(answer) ==
    /\ WriterCallable
    /\ cw_scope = "body"
    /\ WriterDisconnects("aexit", answer, "returned")
    /\ cw_scope' = "left"

\* OPCUAWriter.write(data, auto_convert)
WriterWrite(auto_convert) ==
    /\ WriterCallable
    /\ IF ~WriterAccepts(cw_client)
       THEN /\ c_op' = Call("writer", "write", "not_connected", FALSE)
            /\ UNCHANGED <<w_results, w_log, w_value>>
       ELSE IF cw_client = "open"
       THEN /\ \E out \in {write_values(w_data, TARGET_OBJECT_NAME, auto_convert,
                                        w_failing, w_value)} :
                    /\ w_results' = out.results
                    /\ w_log' = out.log
                    /\ w_value' = out.values
            /\ c_op' = Call("writer", "write", "returned", TRUE)
       ELSE /\ \E g \in {GroupWrites(w_data, <<>>, <<>>)} :
                    w_results' = MarkAllFailed(g.results, g.grouped)
            /\ w_log' = <<>>
            /\ w_value' = w_value
            /\ c_op' = Call("writer", "write", "returned", FALSE)
    /\ w_auto_convert' = auto_convert
    /\ c_calls' = c_calls + 1
    /\ UNCHANGED <<w_data, w_failing, w_phase>>
    /\ UNCHANGED <<cw_url, cw_client, cw_ok, cw_scope, cw_pending>>
    /\ UNCHANGED <<cr_url, cr_client, cr_epac, cr_target, cr_ok, cr_phase,
                   cr_scope, cr_pending>>
    /\ UNCHANGED <<cacheVars, findVars, listVars, readVars, pathVars, variantVars, formatVars, raceVars, discVars>>

\* the body of OPCUAReader.connect up to the search: the Client is stored and
\* the collaborator's connect is awaited, with no deadline: it answers, raises
\* or never does either; on an answer find_specific_object(objects,
\* target_object) starts
ReaderConnects(name, answer) ==
    /\ c_calls' = c_calls + 1
    /\ cr_pending' = TRUE
    /\ UNCHANGED <<cw_url, cr_url, cw_client, cw_ok, cw_scope, cw_pending,
                   cr_target, cr_epac>>
    /\ UNCHANGED <<cacheVars, writeVars, listVars, readVars, pathVars, variantVars, formatVars, raceVars, discVars>>
    /\ CASE answer = "ok" ->
              /\ cr_client' = "open"
              /\ cr_phase' = "finding"
              /\ cr_ok' = FALSE
              /\ c_op' = Call("reader", name, "pending", TRUE)
              /\ f_children' = [n \in AddrNodes |-> Children(n)]
              /\ f_match' = {n \in AddrNodes :
                                  NodeClass(n) = "Object" /\ DisplayName(n) = cr_target}
              /\ f_failing' = {}
              /\ f_max_level' = DEFAULT_MAX_DEPTH
              /\ f_root' = ObjectsNode
              /\ f_stack' = <<Frame(ObjectsNode, 0)>>
              /\ f_visited' = {}
              /\ f_log' = <<>>
              /\ f_ret' = NoRet
              /\ f_result' = None
              /\ f_phase' = "running"
         [] answer = "never" ->
              /\ cr_client' = "closed"
              /\ cr_phase' = "connecting"
              /\ cr_ok' = FALSE
              /\ c_op' = Call("reader", name, "pending", FALSE)
              /\ UNCHANGED findVars
         [] OTHER ->
              /\ cr_client' = "closed"
              /\ cr_ok' = FALSE
              /\ c_op' = Call("reader", name, "connect_error", FALSE)
              /\ UNCHANGED <<cr_phase, findVars>>

\* OPCUAReader.connect
ReaderConnect(answer) ==
    /\ ReaderCallable
    /\ ReaderConnects("connect", answer)
    /\ UNCHANGED cr_scope

\* OPCUAReader.__aenter__: `await self.connect()`
ReaderEnter(answer) ==
    /\ ReaderCallable
    /\ cr_scope = "none"
    /\ ReaderConnects("aenter", answer)
    /\ cr_scope' = IF answer \in {"ok", "never"} THEN "entering" ELSE "left"

\* OPCUAReader.connect after the search: `self._epac_node = ...` and the
\* RuntimeError when nothing was found; raised inside __aenter__, it leaves
\* the block without __aexit__
ReaderConnectEnd ==
    /\ cr_phase = "finding"
    /\ f_phase = "done"
    /\ cr_epac' = f_result
    /\ cr_ok' = (f_result # None)
    /\ c_op' = Call("reader", c_op.name,
                    IF f_result # None THEN "returned" ELSE "not_found_error", TRUE)
    /\ cr_phase' = "idle"
    /\ cr_scope' = IF cr_scope = "entering"
                   THEN (IF f_result # None THEN "body" ELSE "left")
                   ELSE cr_scope
    /\ UNCHANGED <<cw_url, cr_url, cw_client, cw_ok, cw_scope, cw_pending,
                   cr_client, cr_target, cr_pending, c_calls>>
    /\ UNCHANGED <<cacheVars, writeVars, findVars, listVars, readVars, pathVars, variantVars, formatVars, raceVars, discVars>>

\* the body of OPCUAReader.disconnect
ReaderDisconnects(name, answer) ==
    /\ cr_client = None => answer = "ok"
    /\ cr_client' = IF answer = "ok" THEN None ELSE cr_client
    /\ cr_epac' = IF cr_client # None /\ answer = "ok" THEN None ELSE cr_epac
    /\ cr_ok' = FALSE
    /\ cr_pending' = IF cr_client # None THEN FALSE ELSE cr_pending
    /\ c_op' = Call("reader", name,
                    IF answer = "ok" THEN "returned" ELSE "disconnect_error",
                    cr_client = "open")
    /\ c_calls' = c_calls + 1
    /\ UNCHANGED <<cw_url, cr_url, cw_client, cw_ok, cw_scope, cw_pending,
                   cr_target, cr_phase>>
    /\ UNCHANGED <<cacheVars, writeVars, findVars, listVars, readVars, pathVars, variantVars, formatVars, raceVars, discVars>>

\* OPCUAReader.disconnect
ReaderDisconnect(answer) ==
    /\ ReaderCallable
    /\ ReaderDisconnects("disconnect", answer)
    /\ UNCHANGED cr_scope

\* OPCUAReader.__aexit__: `await self.disconnect()`
ReaderExit(answer) ==
    /\ ReaderCallable
    /\ cr_scope = "body"
    /\ ReaderDisconnects("aexit", answer)
    /\ cr_scope' = "left"

\* the names get_variable_field_names discovers by browsing: the display
\* names of the node's Variable children
DiscoveredFieldNames(node) ==
    LET vars_below == SelectSeq(Children(node), LAMBDA c : NodeClass(c) = "Variable")
    IN  [i \in 1..Len(vars_below) |-> DisplayName(vars_below[i])]

\* get_variable_field_names(node, type_cache) on the reader's cache: a cached
\* list is a hit; otherwise a miss, the children are browsed and a non-empty
\* list of names is stored (an exception of the store is swallowed).
\* cache_op, the record of the last call made on a cache directly, is no field
\* of the cache and stays as it is.
LookupFieldNames(node) ==
    LET is_cached == node \in SeqKeys(field_names)
        found == DiscoveredFieldNames(node)
    IN  /\ UNCHANGED <<datatype_definitions, max_size, d_recency, cache_op>>
        /\ IF is_cached
           THEN /\ hits' = hits + 1
                /\ misses' = misses
                /\ field_names' = MoveToEnd(field_names, node)
                /\ f_recency' = Touch(f_recency, node)
           ELSE /\ hits' = hits
                /\ misses' = misses + 1
                /\ IF found = <<>> \/ EvictRaises(field_names, max_size)
                   THEN UNCHANGED <<field_names, f_recency>>
                   ELSE /\ field_names' = AfterSet(field_names, max_size, node, found)
                        /\ f_recency' = Touch(Forget(f_recency,
                                            EvictedKey(field_names, max_size)), node)

\* the list-valued variable below the target object that the reads decode
ReadVariable == "a"

\* OPCUAReader.read_node(ReadVariable) / read_all: the guard, then the reads
\* against the server (which reach it only through an open session); the
\* value of ReadVariable is a non-empty list, so format_value looks its field
\* names up in self.cache
ReaderRead(name) ==
    /\ ReaderCallable
    /\ c_op' = IF ReaderAccepts(cr_client, cr_epac)
               THEN Call("reader", name, "returned", cr_client = "open")
               ELSE Call("reader", name, "not_connected", FALSE)
    /\ IF ReaderAccepts(cr_client, cr_epac) /\ cr_client = "open"
       THEN LookupFieldNames(ReadVariable)
       ELSE UNCHANGED cacheVars
    /\ c_calls' = c_calls + 1
    /\ UNCHANGED <<cw_url, cw_client, cw_ok, cw_scope, cw_pending>>
    /\ UNCHANGED <<cr_url, cr_client, cr_epac, cr_target, cr_ok, cr_phase,
                   cr_scope, cr_pending>>
    /\ UNCHANGED <<writeVars, findVars, listVars, readVars, pathVars, variantVars, formatVars, raceVars, discVars>>

WriterAnswers == {"ok", "timeout", "refused"}
ReaderAnswers == {"ok", "never", "refused"}
DisconnectAnswers == {"ok", "error"}

WriterConnectStep == \E answer \in WriterAnswers : WriterConnect(answer)
WriterEnterStep == \E answer \in WriterAnswers : WriterEnter(answer)
WriterDisconnectStep == \E answer \in DisconnectAnswers : WriterDisconnect(answer)
WriterExitStep == \E answer \in DisconnectAnswers : WriterExit(answer)
WriterWriteStep == \E auto_convert \in BOOLEAN : WriterWrite(auto_convert)
ReaderConnectStep == \E answer \in ReaderAnswers : ReaderConnect(answer)
ReaderEnterStep == \E answer \in ReaderAnswers : ReaderEnter(answer)
ReaderDisconnectStep == \E answer \in DisconnectAnswers : ReaderDisconnect(answer)
ReaderExitStep == \E answer \in DisconnectAnswers : ReaderExit(answer)
ReaderReadStep == \E name \in {"read_node", "read_all"} : ReaderRead(name)

\* the search runs only inside a pending connect
ConnFind == cr_phase = "finding" /\ FindNext

ConnNext ==
    \/ WriterConnectStep
    \/ WriterEnterStep
    \/ WriterDisconnectStep
    \/ WriterExitStep
    \/ WriterWriteStep
    \/ ReaderConnectStep
    \/ ReaderEnterStep
    \/ ConnFind
    \/ ReaderConnectEnd
    \/ ReaderDisconnectStep
    \/ ReaderExitStep
    \/ ReaderReadStep

\* ------------------------------------------------------------------------
\* Reads: find_and_read_variable, read_object_children (opcua/reader.py) and
\* format_value (opcua/parser.py)
\* ------------------------------------------------------------------------
MaxKids == 3       \* children of the object that is read

\* a decoded mapping, as a Python value
PyMap(m) == [t |-> "map", n |-> 0, items |-> m]

\* A node below the object that is read: its display name, node class, stored
\* value, data type (None when the metadata cannot be read), EnumStrings
\* list, the reads that raise on it ("name", "class", "value", "children")
\* and its own children.
Kid(name, class, value, dtype, enum, fails, kids) ==
    [name |-> name, class |-> class, value |-> value, dtype |-> dtype,
     enum |-> enum, fails |-> fails, kids |-> kids]

Leaf(name, value, fails) == Kid(name, "Variable", value, "Int32", <<>>, fails, <<>>)

\* the children an address space may place below the object
KidChoices ==
    { Leaf("v", PyInt(5), {}),
      Leaf("v", PyInt(6), {"value"}),
      Leaf("w", PyInt(7), {"name"}),
      Leaf("u", PyBool(TRUE), {"class"}),
      Kid("w", "Variable", PyInt(5), "UInt16", <<"run", "fault", "ready">>, {}, <<>>),
      Kid("u", "Variable", PyInt(9), None, <<"run">>, {}, <<>>),
      Kid("w", "Variable", PyInt(-3), "Int16", <<"run", "fault", "ready">>, {}, <<>>),
      Kid("u", "Variable", PyBool(TRUE), "Boolean", <<"run", "fault">>, {}, <<>>),
      Kid("a", "Variable", PyList(<<PyInt(10), PyInt(20), PyInt(30)>>), "Struct", <<>>, {},
          <<Leaf("x", PyInt(0), {}), Leaf("y", PyInt(0), {})>>),
      Kid("a", "Variable", PyList(<<PyInt(10)>>), "Struct", <<>>, {},
          <<Leaf("x", PyInt(0), {}), Kid("m", "Method", PyNone, None, <<>>, {}, <<>>),
            Leaf("y", PyInt(0), {})>>),
      Kid("b", "Variable", PyList(<<>>), "Struct", <<>>, {}, <<Leaf("x", PyInt(0), {})>>),
      Kid("b", "Variable", PyList(<<PyInt(10), PyInt(20), PyInt(30)>>), "Pair", <<>>, {}, <<>>),
      Kid("c", "Variable", PyList(<<PyBool(TRUE), PyInt(2)>>), "Int32", <<>>, {}, <<>>),
      Kid("m", "Method", PyNone, None, <<>>, {}, <<>>),
      Kid("o", "Object", PyNone, None, <<>>, {},
          <<Leaf("g", PyInt(1), {}), Leaf("h", PyInt(2), {"value"})>>),
      Kid("v", "Object", PyNone, None, <<>>, {"children"}, <<Leaf("g", PyInt(1), {})>>) }

ReadNames == {"v", "w", "u", "o", "m", "zz"}

RECURSIVE BitsFrom(_, _, _, _)
\* the loop of parse_bitmask: result[bit_name] = (value >> i) & 1
BitsFrom(result, n, bit_names, i) ==
    IF i > Len(bit_names) THEN result
    ELSE BitsFrom(Put(result, bit_names[i], PyInt((n \div (2 ^ (i - 1))) % 2)),
                  n, bit_names, i + 1)

\* as parse_bitmask, every name getting the lowest bit
parse_bitmask_low(value, bit_names) ==
    IF value.t \notin {"int", "bool"} THEN value
    ELSE PyMap([name \in Range(bit_names) |-> PyInt(value.n % 2)])

\* parse_bitmask(value, bit_names)
parse_bitmask(value, bit_names) ==
    IF value.t \notin {"int", "bool"} THEN value
    ELSE PyMap(BitsFrom(<<>>, value.n, bit_names, 1))

\* `{f"[{i}]": v for i, v in enumerate(value)}`
IndexKeyed(items) == [k \in {<<"[", i - 1, "]">> : i \in 1..Len(items)} |-> items[k[2] + 1]]

\* the display name of the child that carries a node's enumeration list; it
\* is a Variable and the first of the node's children
EnumChildName == "EnumStrings"

\* get_variable_field_names(node, type_cache): the display names of the
\* node's Variable children (the enumeration child included), in children
\* order; a child whose name or class cannot be read is left out, and
\* nothing is found when the children cannot be listed
get_variable_field_names(node) ==
    IF "children" \in node.fails THEN <<>>
    ELSE LET fields == SelectSeq(node.kids,
                          LAMBDA c : c.fails \cap {"name", "class"} = {}
                                     /\ c.class = "Variable")
         IN  (IF node.enum # <<>> THEN <<EnumChildName>> ELSE <<>>)
                \o [i \in 1..Len(fields) |-> fields[i].name]

\* get_structure_fields(client, datatype_node, type_cache): the display names
\* of the children of the data type's node; of the data types of the address
\* space only "Pair" has any
get_structure_fields(data_type) ==
    IF data_type = "Pair" THEN <<"d0", "d1">> ELSE <<>>

\* the key of a decoded sequence element: the field name, or f"[{i}]"
NameKey(field_name) == <<field_name>>
IndexKey(i) == <<"[", i, "]">>

RECURSIVE NameItems_named(_, _, _, _)
\* as NameItems, without the elements past the last field name
NameItems_named(result, names, items, i) ==
    IF i > Len(items) \/ i > Len(names) THEN result
    ELSE NameItems_named(Put(result, NameKey(names[i]), items[i]),
                         names, items, i + 1)

RECURSIVE NameItems(_, _, _, _)
\* `for i, val in enumerate(value)`: result[field_names[i]] = val while
\* i < len(field_names), result[f"[{i}]"] = val after that
NameItems(result, names, items, i) ==
    IF i > Len(items) THEN result
    ELSE NameItems(Put(result,
                       IF i <= Len(names) THEN NameKey(names[i])
                       ELSE IndexKey(i - 1),
                       items[i]),
                   names, items, i + 1)

\* as get_enum_strings, the list being known without any read
get_enum_strings_known(node) == node.enum

\* get_enum_strings(node): the items of the node's EnumStrings / EnumValues
\* child; nothing (None) when the node has no such child, when its children
\* cannot be listed, and when the child's value cannot be read
get_enum_strings(node) ==
    IF node.fails \cap {"children", "enum"} # {} THEN <<>> ELSE node.enum

\* get_structure_fields on the node of the variable's data type: nothing
\* (None) when the children of the data type's node cannot be listed
StructureFieldsOf(node) ==
    IF "typedef" \in node.fails THEN <<>> ELSE get_structure_fields(node.dtype)

\* as UsesBitmask, for a boolean value as well
UsesBitmask_bool(enum_strings, value) ==
    enum_strings # <<>> /\ value.t \in {"int", "bool"}

\* `enum_strings and isinstance(value, int) and not isinstance(value, bool)`
UsesBitmask(enum_strings, value) ==
    enum_strings # <<>> /\ value.t = "int"

\* format_value(node, value, client, type_cache)
format_value(node, value) ==
    IF node.dtype = None THEN value
    ELSE IF UsesBitmask(get_enum_strings(node), value)
         THEN parse_bitmask(value, get_enum_strings(node))
    ELSE IF value.t = "list"
         THEN IF Len(value.items) > 0
              THEN LET own == get_variable_field_names(node)
                       names == IF own # <<>> THEN own
                                      ELSE StructureFieldsOf(node)
                   IN  IF names # <<>>
                       THEN PyMap(NameItems(<<>>, names, value.items, 1))
                       ELSE PyMap(IndexKeyed(value.items))
              ELSE value
    ELSE value

\* the metadata reads format_value makes, in order: the data type, the
\* enumeration list, the node's own field names and the data type's fields
format_probes(node, value) ==
    <<"data_type">> \o
    ( IF node.dtype = None THEN <<>>
      ELSE <<"enum">> \o
           ( IF UsesBitmask(get_enum_strings(node), value) THEN <<>>
             ELSE IF value.t = "list" /\ Len(value.items) > 0
             THEN <<"fields">> \o
                  ( IF get_variable_field_names(node) = <<>>
                    THEN <<"typedef">> ELSE <<>> )
             ELSE <<>> ) )

NoTuple == [got |-> FALSE, name |-> None, value |-> PyNone]

\* read_single_child(child): the (name, formatted value) tuple of a Variable
\* all of whose reads answer, None otherwise
read_single_child(child) ==
    IF "name" \in child.fails \/ "class" \in child.fails THEN NoTuple
    ELSE IF child.class # "Variable" THEN NoTuple
    ELSE IF "value" \in child.fails THEN NoTuple
    ELSE [got |-> TRUE, name |-> child.name,
          value |-> format_value(child, child.value)]

RECURSIVE CollectValues_stop(_, _)
\* as CollectValues, giving up at the first child that gave nothing
CollectValues_stop(values, results) ==
    IF results = <<>> THEN values
    ELSE IF ~Head(results).got THEN values
    ELSE CollectValues_stop(Put(values, Head(results).name, Head(results).value),
                            Tail(results))

RECURSIVE CollectValues(_, _)
\* `for result in results: ... values[name] = value`
CollectValues(values, results) ==
    IF results = <<>> THEN values
    ELSE CollectValues(IF Head(results).got
                       THEN Put(values, Head(results).name, Head(results).value)
                       ELSE values,
                       Tail(results))

Todo == [got |-> FALSE, name |-> "todo", value |-> PyNone]

\* read_object_children(node, client, type_cache) as a whole: {} when the
\* children cannot be listed
read_object_children(node) ==
    IF "children" \in node.fails THEN <<>>
    ELSE CollectValues(<<>>, [i \in 1..Len(node.kids) |->
                                  read_single_child(node.kids[i])])

\* `max_level=5` of the get_child_objects call in read_all
READ_ALL_MAX_LEVEL == 5

RECURSIVE get_child_objects(_, _, _)
RECURSIVE ProcessChildren(_, _, _)
\* the results of process_child for the children, concatenated in order: an
\* Object child whose name and class can be read, followed by the objects
\* below it
ProcessChildren(kids, level, max_level) ==
    IF kids = <<>> THEN <<>>
    ELSE LET child == Head(kids)
         IN  (IF child.fails \cap {"name", "class"} = {} /\ child.class = "Object"
              THEN <<child>> \o get_child_objects(child, level + 1, max_level)
              ELSE <<>>)
             \o ProcessChildren(Tail(kids), level, max_level)

\* get_child_objects(node, level, max_level): the objects below node, each
\* with its display name
get_child_objects(node, level, max_level) ==
    IF level > max_level THEN <<>>
    ELSE IF "children" \in node.fails THEN <<>>
    ELSE ProcessChildren(node.kids, level, max_level)

\* self._epac_node: the object that is read
EpacNode ==
    Kid(TARGET_OBJECT_NAME, "Object", PyNone, None, <<>>,
        IF r_browse_fails THEN {"children"} ELSE {}, r_kids)

NoResult == [t |-> "unset", n |-> 0, items |-> <<>>]

ReadInit ==
    /\ r_kids = <<>>
    /\ r_browse_fails \in BOOLEAN
    /\ r_name = None
    /\ r_call = None
    /\ r_scan = 0
    /\ r_node = <<>>
    /\ r_tasks = <<>>
    /\ r_all_data = <<>>
    /\ r_result = NoResult
    /\ r_phase = "setup"

\* the address space gains a child below the object
AddKid(kid) ==
    /\ r_phase = "setup"
    /\ Len(r_kids) < MaxKids
    /\ r_kids' = Append(r_kids, kid)
    /\ UNCHANGED <<r_browse_fails, r_name, r_call, r_scan, r_node, r_tasks,
                   r_all_data, r_result, r_phase>>
    /\ UNCHANGED notRead

\* `children = await node.get_children()` and the creation of one
\* read_single_child task per child, all handed to asyncio.gather
StartGather(kids, fails) ==
    IF fails
    THEN /\ r_tasks' = <<>>
         /\ r_node' = <<>>
    ELSE /\ r_tasks' = [i \in 1..Len(kids) |-> Todo]
         /\ r_node' = kids

\* read_object_children(node, client, type_cache) called on the object
ReadObjectChildrenCall ==
    /\ r_phase = "setup"
    /\ r_call' = "read_object_children"
    /\ StartGather(r_kids, r_browse_fails)
    /\ r_phase' = "gathering"
    /\ UNCHANGED <<r_kids, r_browse_fails, r_name, r_scan, r_all_data, r_result>>
    /\ UNCHANGED notRead

\* one task of the gather runs read_single_child to its end; the tasks
\* finish in any order
ReadSingleChild(i) ==
    /\ r_phase = "gathering"
    /\ i \in 1..Len(r_tasks)
    /\ r_tasks[i] = Todo
    /\ r_tasks' = [r_tasks EXCEPT ![i] = read_single_child(r_node[i])]
    /\ UNCHANGED <<r_kids, r_browse_fails, r_name, r_call, r_scan, r_node,
                   r_all_data, r_result, r_phase>>
    /\ UNCHANGED notRead

\* the gather has every result: read_object_children builds `values` and
\* returns it. Inside find_and_read_variable it becomes {variable_name:
\* values}; inside read_all it is stored under target_object when not empty,
\* get_child_objects(self._epac_node, level=0, max_level=5) lists the
\* objects, and one read_child_object task per object goes to asyncio.gather
ReadCollect ==
    /\ r_phase = "gathering"
    /\ \A i \in 1..Len(r_tasks) : r_tasks[i] # Todo
    /\ UNCHANGED <<r_kids, r_browse_fails, r_name, r_call, r_scan>>
    /\ UNCHANGED notRead
    /\ LET values == CollectValues(<<>>, r_tasks)
       IN  CASE r_call = "read_object_children" ->
                  /\ r_result' = PyMap(values)
                  /\ r_phase' = "done"
                  /\ UNCHANGED <<r_node, r_tasks, r_all_data>>
             [] r_call = "find_and_read_variable" ->
                  /\ r_result' = PyMap(Put(<<>>, r_name, PyMap(values)))
                  /\ r_phase' = "done"
                  /\ UNCHANGED <<r_node, r_tasks, r_all_data>>
             [] OTHER ->
                  /\ r_all_data' = IF values # <<>>
                                   THEN Put(<<>>, TARGET_OBJECT_NAME, PyMap(values))
                                   ELSE <<>>
                  /\ r_node' = get_child_objects(EpacNode, 0, READ_ALL_MAX_LEVEL)
                  /\ r_tasks' = [i \in 1..Len(r_node') |-> Todo]
                  /\ r_phase' = "reading_objects"
                  /\ UNCHANGED r_result

\* OPCUAReader.read_all after its guard
ReadAllCall ==
    /\ r_phase = "setup"
    /\ r_call' = "read_all"
    /\ StartGather(r_kids, r_browse_fails)
    /\ r_phase' = "gathering"
    /\ UNCHANGED <<r_kids, r_browse_fails, r_name, r_scan, r_all_data, r_result>>
    /\ UNCHANGED notRead

\* one read_child_object task runs to its end: (obj_name, values) when the
\* object gave values, None otherwise; the tasks finish in any order
ReadChildObject(i) ==
    /\ r_phase = "reading_objects"
    /\ i \in 1..Len(r_tasks)
    /\ r_tasks[i] = Todo
    /\ r_tasks' = [r_tasks EXCEPT ![i] =
                      LET values == read_object_children(r_node[i])
                      IN  IF values # <<>>
                          THEN [got |-> TRUE, name |-> r_node[i].name,
                                value |-> PyMap(values)]
                          ELSE NoTuple]
    /\ UNCHANGED <<r_kids, r_browse_fails, r_name, r_call, r_scan, r_node,
                   r_all_data, r_result, r_phase>>
    /\ UNCHANGED notRead

\* read_all collects `all_data[name] = values` in task order and returns
ReadAllCollect ==
    /\ r_phase = "reading_objects"
    /\ \A i \in 1..Len(r_tasks) : r_tasks[i] # Todo
    /\ r_all_data' = CollectValues(r_all_data, r_tasks)
    /\ r_result' = PyMap(r_all_data')
    /\ r_phase' = "done"
    /\ UNCHANGED <<r_kids, r_browse_fails, r_name, r_call, r_scan, r_node, r_tasks>>
    /\ UNCHANGED notRead

\* find_and_read_variable(parent_node, variable_name, ...): get_children of
\* the parent; when it raises the call returns None
FindAndReadCall(variable_name) ==
    /\ r_phase = "setup"
    /\ r_call' = "find_and_read_variable"
    /\ r_name' = variable_name
    /\ IF r_browse_fails
       THEN /\ r_result' = PyNone
            /\ r_phase' = "done"
            /\ r_scan' = 0
       ELSE /\ r_result' = r_result
            /\ r_phase' = "scanning"
            /\ r_scan' = 1
    /\ UNCHANGED <<r_kids, r_browse_fails, r_node, r_tasks, r_all_data>>
    /\ UNCHANGED notRead

\* as PassedOver, without the comparison of the display name
PassedOver_anyname(child, variable_name) ==
    \/ "name" \in child.fails
    \/ "class" \in child.fails
    \/ child.class \notin {"Variable", "Object"}
    \/ child.class = "Variable" /\ "value" \in child.fails

\* the loop of find_and_read_variable goes on to the next child: a read of
\* this one raised (except Exception: pass), its display name is not
\* variable_name, or it is neither a Variable nor an Object
PassedOver(child, variable_name) ==
    \/ "name" \in child.fails
    \/ child.name # variable_name
    \/ "class" \in child.fails
    \/ child.class \notin {"Variable", "Object"}
    \/ child.class = "Variable" /\ "value" \in child.fails

\* one round of `for child in children`: a child that raises or does not
\* match is passed over; a matching Variable ends the call with its value, a
\* matching Object starts read_object_children on it; past the last child the
\* call returns None
ScanChild ==
    /\ r_phase = "scanning"
    /\ UNCHANGED <<r_kids, r_browse_fails, r_name, r_call, r_all_data>>
    /\ UNCHANGED notRead
    /\ IF r_scan > Len(r_kids)
       THEN /\ r_result' = PyNone
            /\ r_phase' = "done"
            /\ UNCHANGED <<r_scan, r_node, r_tasks>>
       ELSE LET child == r_kids[r_scan]
            IN  IF PassedOver(child, r_name)
                THEN /\ r_scan' = r_scan + 1
                     /\ UNCHANGED <<r_node, r_tasks, r_result, r_phase>>
                ELSE IF child.class = "Variable"
                THEN /\ r_result' = PyMap(Put(<<>>, r_name,
                                              format_value(child, child.value)))
                     /\ r_phase' = "done"
                     /\ UNCHANGED <<r_scan, r_node, r_tasks>>
                ELSE /\ StartGather(child.kids, "children" \in child.fails)
                     /\ r_phase' = "gathering"
                     /\ UNCHANGED <<r_scan, r_result>>

AddKidStep == \E kid \in KidChoices : AddKid(kid)
ReadSingleChildStep == \E i \in 1..MaxKids : ReadSingleChild(i)
ReadChildObjectStep == \E i \in 1..MaxKids : ReadChildObject(i)
FindAndReadCallStep == \E variable_name \in ReadNames : FindAndReadCall(variable_name)

ReadNext ==
    \/ AddKidStep
    \/ ReadObjectChildrenCall
    \/ ReadSingleChildStep
    \/ ReadCollect
    \/ ReadAllCall
    \/ ReadChildObjectStep
    \/ ReadAllCollect
    \/ FindAndReadCallStep
    \/ ScanChild

\* ------------------------------------------------------------------------
\* find_object_by_name, find_node_by_path on a server where reads can raise
\* (src/opcua/navigation/navigator.py)
\* ------------------------------------------------------------------------
\* `for child in children: <read the child's names>; if <test>: ...`: the
\* loop raises when it reads a child of `failing` before it comes to a child
\* that passes the test
LoopRaises(children, passing, failing) ==
    \E i \in 1..Len(children) :
        /\ children[i] \in failing
        /\ \A j \in passing : i < j

\* find_object_by_name with its `except Exception: return None`
TryFindObjectByName(name, failing) ==
    LET children == Children(ObjectsNode)
        passing == {i \in 1..Len(children) :
                       /\ children[i] \notin failing
                       /\ DisplayName(children[i]) = name}
    IN  IF LoopRaises(children, passing, failing) THEN None
        ELSE FirstMatch(children, passing)

Raised == "Raised"

RECURSIVE TryWalkPath(_, _, _)
\* the loop `for part in parts` of find_node_by_path; Raised when a read
\* raises inside it
TryWalkPath(current_node, parts, failing) ==
    IF parts = <<>> THEN current_node
    ELSE LET children == Children(current_node)
             passing == {i \in 1..Len(children) :
                            /\ children[i] \notin failing
                            /\ \/ BrowseName(children[i]) = Head(parts)
                               \/ DisplayName(children[i]) = Head(parts)}
             child == FirstMatch(children, passing)
         IN  IF LoopRaises(children, passing, failing) THEN Raised
             ELSE IF child = None THEN None
             ELSE TryWalkPath(child, Tail(parts), failing)

\* find_node_by_path with its `except Exception: return None`
TryFindNodeByPath(path, root_object_name, failing) ==
    LET root == TryFindObjectByName(
                    IF root_object_name = None THEN TARGET_OBJECT_NAME
                    ELSE root_object_name, failing)
        found == IF root = None THEN None ELSE TryWalkPath(root, path, failing)
    IN  IF found = Raised THEN None ELSE found

\* ------------------------------------------------------------------------
\* find_node_by_path called on its own (src/opcua/navigation/navigator.py)
\* ------------------------------------------------------------------------
MaxSegs == 3       \* segments of a path

\* the segments a path is made of; "" is what split('.') yields between two
\* dots, before a leading dot and after a trailing one
PathSegments == {"m", "k", "g", "m1", "a", "c", "c2", ""}

\* the root_object_name argument; None selects TARGET_OBJECT_NAME
PathRoots == {"T", None, "Missing"}

NotCalled == "NotCalled"

PathInit ==
    /\ p_path \in {<<seg>> : seg \in PathSegments}
    /\ p_root \in PathRoots
    /\ p_failing = {}
    /\ p_result = NotCalled
    /\ p_phase = "setup"

\* the nodes of the snapshot whose name reads can be made to raise
PathFailable == {"Server", "t1", "a", "g"}

\* as PathInit, on a server where the name reads of some nodes raise
PathErrInit ==
    /\ p_path \in {<<seg>> : seg \in PathSegments}
    /\ p_root \in PathRoots
    /\ p_failing \in SUBSET PathFailable
    /\ p_result = NotCalled
    /\ p_phase = "setup"

\* the caller's path string grows by ".seg"
AddSegment(seg) ==
    /\ p_phase = "setup"
    /\ Len(p_path) < MaxSegs
    /\ p_path' = Append(p_path, seg)
    /\ UNCHANGED <<p_root, p_failing, p_result, p_phase>>
    /\ UNCHANGED notPath

\* await find_node_by_path(client, path, root_object_name)
ResolvePath ==
    /\ p_phase = "setup"
    /\ p_result' = TryFindNodeByPath(p_path, p_root, p_failing)
    /\ p_phase' = "done"
    /\ UNCHANGED <<p_path, p_root, p_failing>>
    /\ UNCHANGED notPath

AddSegmentStep == \E seg \in PathSegments : AddSegment(seg)

PathNext ==
    \/ AddSegmentStep
    \/ ResolvePath

\* ------------------------------------------------------------------------
\* python_to_variant (src/opcua/core/type_conversion.py) on its own
\* ------------------------------------------------------------------------
MaxItems == 2      \* elements of a sequence that is converted

NoVariant == [vtype |-> "unset", value |-> PyNone]

\* the scalar values handed to the conversion, also as sequence elements
VariantScalars ==
    {PyNone, PyBool(TRUE), PyBool(FALSE), PyInt(0), PyInt(7), PyFloat(1),
     PyText("on"), PyDict}

\* the prefer_type arguments: none, the generic ua.VariantType.Variant, and
\* declared types
PreferTypes == {None, "Variant", "Boolean", "Int32", "Double", "String", "UInt16"}

VariantInit ==
    /\ v_value \in VariantScalars \cup {PyList(<<>>), PyTuple(<<>>)}
    /\ v_prefer \in PreferTypes
    /\ v_variant = NoVariant
    /\ v_phase = "setup"

\* the caller's sequence gains an element
AppendItem(x) ==
    /\ v_phase = "setup"
    /\ v_value.t \in {"list", "tuple"}
    /\ Len(v_value.items) < MaxItems
    /\ v_value' = [v_value EXCEPT !.items = Append(@, x)]
    /\ UNCHANGED <<v_prefer, v_variant, v_phase>>
    /\ UNCHANGED notVariant

\* python_to_variant(value, prefer_type)
Convert ==
    /\ v_phase = "setup"
    /\ v_variant' = python_to_variant(v_value, v_prefer)
    /\ v_phase' = "done"
    /\ UNCHANGED <<v_value, v_prefer>>
    /\ UNCHANGED notVariant

AppendItemStep == \E x \in VariantScalars : AppendItem(x)

VariantNext == AppendItemStep \/ Convert

\* ------------------------------------------------------------------------
\* format_value (opcua/parser.py) on its own, on nodes whose metadata reads
\* can raise
\* ------------------------------------------------------------------------
\* the raw values handed to format_value
FormatValues ==
    { PyInt(5), PyBool(TRUE), PyList(<<>>),
      PyList(<<PyInt(10), PyInt(20), PyInt(30)>>) }

\* the children of the node: none, two fields, two fields the first of
\* which has a display name that cannot be read
FormatKids ==
    { <<>>,
      <<Leaf("x", PyInt(0), {}), Leaf("y", PyInt(0), {})>>,
      <<Leaf("x", PyInt(0), {"name"}), Leaf("y", PyInt(0), {})>> }

\* the metadata reads that may raise on the node: get_children, the value of
\* its EnumStrings child, the children of its data type's node
FormatFailures == {"children", "enum", "typedef"}

FormatInit ==
    /\ \E value \in FormatValues, dtype \in {None, "Struct", "Pair", "Int32"},
          enum \in {<<>>, <<"run", "fault">>}, fails \in SUBSET FormatFailures,
          kids \in FormatKids :
            fv_node = Kid("n", "Variable", value, dtype, enum, fails, kids)
    /\ fv_result = PyNone
    /\ fv_probes = <<>>
    /\ fv_phase = "setup"

\* await format_value(node, value, client, type_cache)
FormatCall ==
    /\ fv_phase = "setup"
    /\ fv_result' = format_value(fv_node, fv_node.value)
    /\ fv_probes' = format_probes(fv_node, fv_node.value)
    /\ fv_phase' = "done"
    /\ UNCHANGED fv_node
    /\ UNCHANGED notFormat

FormatNext == FormatCall

\* ------------------------------------------------------------------------
\* The root object of a Reader and of a Writer configured with one target
\* object name (opcua/reader.py, src/opcua/client/writer.py)
\* ------------------------------------------------------------------------
\* the target_object names: objects directly below Objects, objects further
\* down, and a name no node has
RootTargets == {TARGET_OBJECT_NAME, "T", "Server", "m", "o", "Missing"}

\* OPCUAReader(url, target_object).connect() at its search:
\* find_specific_object(self.client.nodes.objects, self.target_object)
RootInit ==
    /\ cr_target \in RootTargets
    /\ cw_url = UrlNone /\ cw_client = None /\ cw_ok = FALSE
    /\ cw_scope = "none" /\ cw_pending = FALSE
    /\ cr_url = UrlNone /\ cr_client = None /\ cr_epac = None
    /\ cr_ok = FALSE /\ cr_phase = "idle"
    /\ cr_scope = "none" /\ cr_pending = FALSE
    /\ c_op = NoCall /\ c_calls = 0
    /\ FindStart([n \in AddrNodes |-> Children(n)],
                 {n \in AddrNodes : NodeClass(n) = "Object" /\ DisplayName(n) = cr_target},
                 {}, DEFAULT_MAX_DEPTH, ObjectsNode)

\* the object write_values(client, data, self.target_object) resolves its
\* paths from
WriterRoot(target_object) == find_object_by_name(target_object)

\* ------------------------------------------------------------------------
\* Two write_values calls on one array-valued parent, running concurrently
\* (src/opcua/client/writer.py): one step per stretch between the awaits on
\* the parent's value
\* ------------------------------------------------------------------------
\* the calls: two tasks of one client, or two clients
RaceCalls == {"c1", "c2"}

\* the parent node of both groups and its path
RaceParent == "a"

\* the field names a group is made of: children of the parent by display
\* name and by browse name, and a name no child has
RaceFieldNames == {"b", "c", "c2", "d", "q"}

\* the groups of two fields; the fields of call c carry the value RaceSent(c)
RaceGroups(value) ==
    {<<[key |-> p[1], val |-> value], [key |-> p[2], val |-> value]>> :
        p \in {q \in RaceFieldNames \X RaceFieldNames : q[1] # q[2]}}

RaceSent(call) == IF call = "c1" THEN PyInt(1) ELSE PyInt(2)

RaceInit ==
    /\ rw_value = PyList(<<PyBool(FALSE), PyInt(0), PyInt(0)>>)
    /\ \E f1 \in RaceGroups(RaceSent("c1")), f2 \in RaceGroups(RaceSent("c2")) :
            rw_fields = [call \in RaceCalls |-> IF call = "c1" THEN f1 ELSE f2]
    /\ rw_seen = [call \in RaceCalls |-> PyNone]
    /\ rw_results = [call \in RaceCalls |-> <<>>]
    /\ rw_pc = [call \in RaceCalls |-> "start"]

\* `current_value = await parent_node.read_value()`
RaceRead(call) ==
    /\ call \in DOMAIN rw_pc
    /\ rw_pc[call] = "start"
    /\ rw_seen' = [rw_seen EXCEPT ![call] = rw_value]
    /\ rw_pc' = [rw_pc EXCEPT ![call] = "read"]
    /\ UNCHANGED <<rw_value, rw_fields, rw_results>>
    /\ UNCHANGED notRace

\* the rest of the array branch: new_array = list(current_value), the loop
\* over the fields, `await parent_node.write_value(dv)`, and the return
RaceWrite(call) ==
    /\ call \in DOMAIN rw_pc
    /\ rw_pc[call] = "read"
    /\ UseArrayBatch(TRUE, rw_fields[call], rw_seen[call])
    /\ \E built \in {ArrayFields(rw_fields[call], RaceParent, <<RaceParent>>,
                                  rw_seen[call].items, <<>>, TRUE)} :
            /\ rw_value' = VariantFor(RaceParent, PyList(built.arr), TRUE).value
            /\ rw_results' = [rw_results EXCEPT ![call] = built.results]
    /\ rw_pc' = [rw_pc EXCEPT ![call] = "done"]
    /\ UNCHANGED <<rw_fields, rw_seen>>
    /\ UNCHANGED notRace

RaceReadStep == \E call \in RaceCalls : RaceRead(call)
RaceWriteStep == \E call \in RaceCalls : RaceWrite(call)

RaceNext ==
    \/ RaceReadStep
    \/ RaceWriteStep

\* ------------------------------------------------------------------------
\* Specifications
\* ------------------------------------------------------------------------
CacheIdle ==
    /\ datatype_definitions = <<>> /\ field_names = <<>> /\ max_size = 0
    /\ hits = 0 /\ misses = 0 /\ cache_op = NoOp
    /\ d_recency = <<>> /\ f_recency = <<>>

WriteIdle ==
    /\ w_data = <<>> /\ w_auto_convert = TRUE /\ w_failing = {}
    /\ w_value = InitialValues /\ w_results = <<>> /\ w_log = <<>>
    /\ w_phase = "idle"

FindIdle ==
    /\ f_children = [n \in FNodes |-> <<>>] /\ f_match = {} /\ f_failing = {}
    /\ f_max_level = 0 /\ f_root = "A" /\ f_stack = <<>> /\ f_visited = {}
    /\ f_log = <<>>
    /\ f_ret = NoRet /\ f_result = None /\ f_phase = "idle"

ListIdle ==
    /\ l_children = [n \in LNodes |-> <<>>] /\ l_objects = {} /\ l_failing = {}
    /\ l_max_level = 0 /\ l_max_concurrent = 1 /\ l_task = <<>> /\ l_sem = <<>>
    /\ l_result = <<>> /\ l_phase = "idle"

ReadIdle ==
    /\ r_kids = <<>> /\ r_browse_fails = FALSE /\ r_name = None /\ r_call = None
    /\ r_scan = 0 /\ r_node = <<>> /\ r_tasks = <<>> /\ r_all_data = <<>>
    /\ r_result = NoResult /\ r_phase = "idle"

PathIdle ==
    /\ p_path = <<"">> /\ p_root = None /\ p_failing = {}
    /\ p_result = NotCalled /\ p_phase = "idle"

VariantIdle ==
    /\ v_value = PyNone /\ v_prefer = None /\ v_variant = NoVariant /\ v_phase = "idle"

FormatIdle ==
    /\ fv_node = [name |-> "", class |-> "Variable", value |-> PyNone, dtype |-> None,
                  enum |-> <<>>, fails |-> {}, kids |-> <<>>]
    /\ fv_result = PyNone /\ fv_probes = <<>> /\ fv_phase = "idle"

RaceIdle ==
    /\ rw_value = PyNone /\ rw_fields = <<>> /\ rw_seen = <<>> /\ rw_results = <<>>
    /\ rw_pc = <<>>

DiscIdle ==
    /\ dc_key = <<>>
    /\ dc_pc = <<>>
    /\ dc_names = <<>>
    /\ dc_browses = <<>>
    /\ dc_answer = <<>>

ConnIdle ==
    /\ cw_url = UrlNone /\ cw_client = None /\ cw_ok = FALSE
    /\ cw_scope = "none" /\ cw_pending = FALSE
    /\ cr_url = UrlNone /\ cr_client = None /\ cr_epac = None
    /\ cr_target = TARGET_OBJECT_NAME /\ cr_ok = FALSE /\ cr_phase = "idle"
    /\ cr_scope = "none" /\ cr_pending = FALSE
    /\ c_op = NoCall /\ c_calls = 0

InitCache ==
    CacheInit /\ WriteIdle /\ FindIdle /\ ListIdle /\ ConnIdle /\ ReadIdle
        /\ PathIdle /\ VariantIdle /\ FormatIdle /\ RaceIdle /\ DiscIdle

InitWrite ==
    WriteInit /\ CacheIdle /\ FindIdle /\ ListIdle /\ ConnIdle /\ ReadIdle
        /\ PathIdle /\ VariantIdle /\ FormatIdle /\ RaceIdle /\ DiscIdle

InitFind ==
    FindInit /\ CacheIdle /\ WriteIdle /\ ListIdle /\ ConnIdle /\ ReadIdle
        /\ PathIdle /\ VariantIdle /\ FormatIdle /\ RaceIdle /\ DiscIdle

InitFindDeep ==
    FindDeepInit /\ CacheIdle /\ WriteIdle /\ ListIdle /\ ConnIdle /\ ReadIdle
        /\ PathIdle /\ VariantIdle /\ FormatIdle /\ RaceIdle /\ DiscIdle

InitList ==
    ListInit /\ CacheIdle /\ WriteIdle /\ FindIdle /\ ConnIdle /\ ReadIdle
        /\ PathIdle /\ VariantIdle /\ FormatIdle /\ RaceIdle /\ DiscIdle

InitConn == ConnInit /\ ListIdle /\ ReadIdle
        /\ PathIdle /\ VariantIdle /\ FormatIdle /\ RaceIdle /\ DiscIdle

InitRead ==
    ReadInit /\ CacheIdle /\ WriteIdle /\ FindIdle /\ ListIdle /\ ConnIdle
        /\ PathIdle /\ VariantIdle /\ FormatIdle /\ RaceIdle /\ DiscIdle

InitPath ==
    PathInit /\ CacheIdle /\ WriteIdle /\ FindIdle /\ ListIdle /\ ConnIdle /\ ReadIdle
        /\ VariantIdle /\ FormatIdle /\ RaceIdle /\ DiscIdle

InitPathErr ==
    PathErrInit /\ CacheIdle /\ WriteIdle /\ FindIdle /\ ListIdle /\ ConnIdle /\ ReadIdle
        /\ VariantIdle /\ FormatIdle /\ RaceIdle /\ DiscIdle

InitVariant ==
    VariantInit /\ CacheIdle /\ WriteIdle /\ FindIdle /\ ListIdle /\ ConnIdle /\ ReadIdle
        /\ PathIdle /\ FormatIdle /\ RaceIdle /\ DiscIdle

InitFormat ==
    FormatInit /\ CacheIdle /\ WriteIdle /\ FindIdle /\ ListIdle /\ ConnIdle /\ ReadIdle
        /\ PathIdle /\ VariantIdle /\ RaceIdle /\ DiscIdle

InitRoot ==
    RootInit /\ CacheIdle /\ WriteIdle /\ ListIdle /\ ReadIdle
        /\ PathIdle /\ VariantIdle /\ FormatIdle /\ RaceIdle /\ DiscIdle

InitRace ==
    RaceInit /\ CacheIdle /\ WriteIdle /\ FindIdle /\ ListIdle /\ ConnIdle /\ ReadIdle
        /\ PathIdle /\ VariantIdle /\ FormatIdle /\ DiscIdle

SpecCache ==
    /\ InitCache
    /\ [][CacheNext]_vars

SpecWrite ==
    /\ InitWrite
    /\ [][WriteNext]_vars

\* an activation that can take a step takes it: the event loop runs every
\* ready coroutine
SpecFind ==
    /\ InitFind
    /\ [][FindNext]_vars
    /\ WF_vars(FindNext)

SpecFindDeep ==
    /\ InitFindDeep
    /\ [][FindNext]_vars
    /\ WF_vars(FindNext)

SpecVariant ==
    /\ InitVariant
    /\ [][VariantNext]_vars

SpecList ==
    /\ InitList
    /\ [][ListNext]_vars

SpecConn ==
    /\ InitConn
    /\ [][ConnNext]_vars

SpecRead ==
    /\ InitRead
    /\ [][ReadNext]_vars

SpecPath ==
    /\ InitPath
    /\ [][PathNext]_vars

\* inside a pending connect() the event loop runs the search and then the
\* rest of connect(); nothing obliges the caller to make another call
SpecPathErr ==
    /\ InitPathErr
    /\ [][PathNext]_vars

\* every process_child task that can run is run by the event loop
SpecListLive ==
    /\ SpecList
    /\ WF_vars(ListNext)

SpecFormat ==
    /\ InitFormat
    /\ [][FormatNext]_vars

SpecRace ==
    /\ InitRace
    /\ [][RaceNext]_vars

SpecRoot ==
    /\ InitRoot
    /\ [][FindNext]_vars
    /\ WF_vars(FindNext)

SpecConnLive ==
    /\ SpecConn
    /\ WF_vars(ConnFind)
    /\ WF_vars(ReaderConnectEnd)

\* ------------------------------------------------------------------------
\* Claims about write_values
\* ------------------------------------------------------------------------
Returned == w_phase = "returned"

RequestedKeys == {KeyStr(w_data[i].path) : i \in 1..Len(w_data)}

\* C1: the returned map has exactly one entry for each requested path, keyed
\* by the requested path string (a non-string key by its str form): no
\* requested path is missing.
C1_EveryRequestedPathReported ==
    Returned => DOMAIN w_results = RequestedKeys

\* the groups the grouping step forms: parent path -> fields
GroupsOf(data) == GroupWrites(data, <<>>, <<>>).grouped

LogOfGroup(parent_path) == {j \in 1..Len(w_log) : w_log[j].group = parent_path}

\* the group's parent resolves to a node that holds a sequence, and the group
\* addresses more than one field
IsArrayGroup(g) ==
    LET node == find_node_by_path(g.key, TARGET_OBJECT_NAME)
    IN  /\ node # None
        /\ node \in VariableNodes
        /\ InitialValues[node].t = "list"
        /\ Len(g.val) > 1

Carries(entry, value) ==
    /\ entry.ok
    /\ \/ entry.variant.value = value
       \/ /\ entry.variant.value.t = "list"
          /\ \E p \in 1..Len(entry.variant.value.items) :
                entry.variant.value.items[p] \in {value, PyTruth(value)}

\* C3: a path is true in the result only if a write call carrying that path's
\* value was issued and completed without error.
C3_TrueOnlyIfOwnValueWritten ==
    Returned =>
        \A i \in 1..Len(w_data) :
            (/\ KeyStr(w_data[i].path) \in DOMAIN w_results
             /\ w_results[KeyStr(w_data[i].path)])
                => \E j \in 1..Len(w_log) : Carries(w_log[j], w_data[i].value)

\* the parent path a requested key is grouped under (all but the last non-empty
\* segment; a path of one segment is grouped under itself), <<>> for a key that
\* is rejected
GroupKeyOf(path) ==
    IF InvalidPath(path) \/ DropEmpty(path.segs) = <<>> THEN <<>>
    ELSE IF Len(DropEmpty(path.segs)) >= 2
         THEN SubSeq(DropEmpty(path.segs), 1, Len(DropEmpty(path.segs)) - 1)
         ELSE path.segs

\* the request without the paths of one group
DataWithout(data, parent_path) ==
    SelectSeq(data, LAMBDA e : GroupKeyOf(e.path) # parent_path)

GroupResultKeys(g) ==
    {IF g.val[i].key = None THEN g.key ELSE Append(g.key, g.val[i].key) : i \in 1..Len(g.val)}

\* C4: when a group's parent cannot be resolved, every field of the group is
\* false under <parent>.<field>, no write call is issued for the group, and
\* every other group's fields are marked (and written) exactly as in the same
\* request without the failing group.
C4_UnresolvedGroupIsolated ==
    Returned =>
        \A i \in 1..Len(GroupsOf(w_data)) :
            \A g \in {GroupsOf(w_data)[i]} :
                find_node_by_path(g.key, TARGET_OBJECT_NAME) = None =>
                    /\ \A k \in GroupResultKeys(g) :
                            k \in DOMAIN w_results /\ ~w_results[k]
                    /\ LogOfGroup(g.key) = {}
                    /\ \A r2 \in {write_values(DataWithout(w_data, g.key), TARGET_OBJECT_NAME,
                                               w_auto_convert, w_failing, InitialValues)} :
                            /\ DOMAIN w_results = DOMAIN r2.results \cup GroupResultKeys(g)
                            /\ \A k \in DOMAIN r2.results \ GroupResultKeys(g) :
                                    w_results[k] = r2.results[k]
                            /\ w_log = r2.log

\* C4 witness: a request with an unresolvable two-field group and a group that
\* was written
C4_Witness ==
    /\ Returned
    /\ {<<"z", "y">>, <<"z", "w">>, <<"s">>} = DOMAIN w_results
    /\ ~w_results[<<"z", "y">>]
    /\ ~w_results[<<"z", "w">>]
    /\ w_results[<<"s">>]
    /\ Len(w_log) = 1

\* ------------------------------------------------------------------------
\* Claims about find_specific_object
\* ------------------------------------------------------------------------
\* C7: find_specific_object terminates (returns a node or not-found) on every
\* finite address space, cyclic ones included, for every max_level.
C7_FindTerminates == <>(f_phase = "done")

\* C7 witness: a search over the cycle A -> B -> A that entered both nodes and
\* returned not-found
C7_Witness ==
    /\ f_phase = "done"
    /\ "B" \in Range(f_children["A"])
    /\ "A" \in Range(f_children["B"])
    /\ {"A", "B"} \subseteq f_visited
    /\ f_result = None

RECURSIVE WithinDepth(_)
\* the nodes some chain of at most k child references leads to from the root
WithinDepth(k) ==
    IF k = 0 THEN {f_root}
    ELSE WithinDepth(k - 1) \cup
         UNION {Range(f_children[n]) : n \in WithinDepth(k - 1)}

\* C8: with max_level = d (root at depth 0) the node returned is never located
\* at depth d + 1 or deeper below the root.
C8_ResultWithinMaxDepth ==
    (f_phase = "done" /\ f_result # None) => f_result \in WithinDepth(f_max_level)

\* ------------------------------------------------------------------------
\* Claims about get_child_objects
\* ------------------------------------------------------------------------
\* the child explorations that have started and have not finished
InFlight == {p \in DOMAIN l_task : l_task[p].st \in {"reading", "nested"}}

\* C9: during one top-level get_child_objects call the child explorations in
\* flight, counted over the whole recursive call tree, never exceed
\* max_concurrent.
C9_InFlightBounded == Cardinality(InFlight) <= l_max_concurrent

\* ------------------------------------------------------------------------
\* Claims about the connection life cycle
\* ------------------------------------------------------------------------
\* C10: write, read_node and read_all invoked outside a successful connect()
\* .. disconnect() span fail with the not-connected error and send nothing to
\* the server.
C10_RejectedUnlessConnected ==
    /\ (c_op.obj = "writer" /\ c_op.name = "write" /\ ~cw_ok)
            => (c_op.outcome = "not_connected" /\ ~c_op.sent)
    /\ (c_op.obj = "reader" /\ c_op.name \in {"read_node", "read_all"} /\ ~cr_ok)
            => (c_op.outcome = "not_connected" /\ ~c_op.sent)

\* ------------------------------------------------------------------------
\* Claims about construction, connect deadlines and the `async with` form
\* ------------------------------------------------------------------------
\* C11: once a Reader or Writer has left its `async with` block, by whatever
\* path (the body ended, or connect failed inside __aenter__ after the
\* collaborator's connect had been started), a disconnect of the started
\* client has been attempted.
C11_ScopedExitDisconnects ==
    /\ cw_scope = "left" => ~cw_pending
    /\ cr_scope = "left" => ~cr_pending

\* C12: a connect() that has started ends: when the collaborator's connect
\* never answers, the deadline makes connect() fail with a timeout error
\* instead of leaving the caller waiting.
C12_ConnectEnds ==
    (c_op.name \in {"connect", "aenter"} /\ c_op.outcome = "pending")
        ~> (c_op.outcome # "pending")

\* the form of url the constructors are to insist on
UrlWellFormed(url) == url.t = "str" /\ StartsWith(url.chars, OpcPrefix)

\* C13: a Reader or Writer exists, and so can be called (connect included),
\* only for a url that is a string starting with opc.tcp://; for any other
\* url construction fails.
C13_BadUrlFailsAtConstruction ==
    /\ c_op.obj = "writer" => UrlWellFormed(cw_url)
    /\ c_op.obj = "reader" => UrlWellFormed(cr_url)

\* ------------------------------------------------------------------------
\* Claims about the reads
\* ------------------------------------------------------------------------
\* a direct child that has the display name asked for and can be read: its
\* name and class are readable and it is an Object or a Variable whose value
\* is readable
AnswersFor(child, name) ==
    /\ child.fails \cap {"name", "class"} = {}
    /\ child.name = name
    /\ \/ child.class = "Object"
       \/ child.class = "Variable" /\ "value" \notin child.fails

\* C14: read_node(name) on a connected Reader ends with a value and not an
\* exception: None when the children cannot be listed or no direct child
\* both has display name `name` and can be read, and otherwise a mapping
\* whose only key is `name`, holding what the first such child gave.
C14_ReadNodeAbsentOrNamed ==
    (r_call = "find_and_read_variable" /\ r_phase = "done") =>
        LET answering == IF r_browse_fails THEN {}
                         ELSE {i \in 1..Len(r_kids) : AnswersFor(r_kids[i], r_name)}
        IN  IF answering = {} THEN r_result = PyNone
            ELSE LET first == r_kids[CHOOSE i \in answering :
                                        \A j \in answering : i <= j]
                 IN  /\ r_result.t = "map"
                     /\ DOMAIN r_result.items = {r_name}
                     /\ first.class = "Variable" =>
                            r_result.items[r_name] \in
                                {first.value, parse_bitmask(first.value, first.enum)}

\* read_node answered None although a child has the name asked for: the
\* value of that child cannot be read
C14_Witness ==
    /\ r_call = "find_and_read_variable"
    /\ r_phase = "done"
    /\ r_result = PyNone
    /\ ~r_browse_fails
    /\ \E i \in 1..Len(r_kids) :
            r_kids[i].name = r_name /\ "value" \in r_kids[i].fails

\* a child variable all of whose reads answer
Succeeds(kid) ==
    kid.class = "Variable" /\ kid.fails \cap {"name", "class", "value"} = {}

\* the entries a mapping of children must have and may have: one under the
\* display name of every child variable that was read, each holding the value
\* of a child of that name that was read, and no entry under any other name
HoldsChildrenOf(m, kids) ==
    /\ m.t = "map"
    /\ DOMAIN m.items = {kids[i].name : i \in {j \in 1..Len(kids) : Succeeds(kids[j])}}
    /\ \A name \in DOMAIN m.items :
           \E i \in 1..Len(kids) :
               /\ Succeeds(kids[i])
               /\ kids[i].name = name
               /\ m.items[name] = format_value(kids[i], kids[i].value)

\* C15: reading all children of a node ends with a mapping and not an
\* exception, and a child whose read fails takes no sibling with it: the
\* mapping has an entry for every child variable that was read and none for
\* the others.  The same holds for each object read by read_all and for the
\* target object's own variables there.
C15_FailingChildOmittedAlone ==
    /\ (r_call = "read_object_children" /\ r_phase = "done") =>
           HoldsChildrenOf(r_result, IF r_browse_fails THEN <<>> ELSE r_kids)
    /\ (r_call = "read_all" /\ r_phase = "done") =>
           /\ r_result.t = "map"
           /\ (~r_browse_fails /\ \E i \in 1..Len(r_kids) : Succeeds(r_kids[i])) =>
                  /\ TARGET_OBJECT_NAME \in DOMAIN r_result.items
                  /\ HoldsChildrenOf(r_result.items[TARGET_OBJECT_NAME], r_kids)
           /\ ~r_browse_fails =>
                  \A i \in 1..Len(r_kids) :
                      LET obj == r_kids[i]
                      IN  ( /\ obj.class = "Object"
                            /\ obj.fails = {}
                            /\ \E j \in 1..Len(obj.kids) : Succeeds(obj.kids[j]) ) =>
                              /\ obj.name \in DOMAIN r_result.items
                              /\ HoldsChildrenOf(r_result.items[obj.name], obj.kids)

\* read_object_children returned an entry for a child that comes after a
\* sibling whose read_value raised
C15_Witness ==
    /\ r_call = "read_object_children"
    /\ r_phase = "done"
    /\ \E i, j \in 1..Len(r_kids) :
           /\ i < j
           /\ "value" \in r_kids[i].fails
           /\ Succeeds(r_kids[j])
           /\ r_kids[j].name # r_kids[i].name
           /\ r_kids[j].name \in DOMAIN r_result.items
           /\ r_kids[i].name \notin DOMAIN r_result.items

\* ------------------------------------------------------------------------
\* Claims about find_node_by_path
\* ------------------------------------------------------------------------
\* the root object a call starts from, None when there is none
RootOf(root_object_name) ==
    LET name == IF root_object_name = None THEN TARGET_OBJECT_NAME
                ELSE root_object_name
        tops == Children(ObjectsNode)
    IN  IF \E i \in 1..Len(tops) : DisplayName(tops[i]) = name
        THEN tops[CHOOSE i \in 1..Len(tops) :
                      /\ DisplayName(tops[i]) = name
                      /\ \A j \in 1..(i - 1) : DisplayName(tops[j]) # name]
        ELSE None

NameMatches(n, seg) == BrowseName(n) = seg \/ DisplayName(n) = seg

\* c is the first child of parent, in children order, that seg names
IsFirstNamed(parent, c, seg) ==
    \E i \in 1..Len(Children(parent)) :
        /\ Children(parent)[i] = c
        /\ NameMatches(c, seg)
        /\ \A j \in 1..(i - 1) : ~NameMatches(Children(parent)[j], seg)

RECURSIVE WalkEnds(_, _)
\* where the walks that start in `nodes` and move, segment by segment, to
\* the first child named by the segment can end
WalkEnds(nodes, segs) ==
    IF segs = <<>> THEN nodes
    ELSE WalkEnds({c \in AddrNodes : \E n \in nodes : IsFirstNamed(n, c, Head(segs))},
                  Tail(segs))

\* C16: with the root object found and no empty segment in the path,
\* find_node_by_path returns a node exactly when the walk from the root
\* that moves at each segment to the first child whose browse name or
\* display name equals it gets through every segment, and the node returned
\* is the single node such a walk ends on.
C16_PathResolvesByFirstMatchWalk ==
    ( /\ p_phase = "done"
      /\ RootOf(p_root) # None
      /\ \A i \in 1..Len(p_path) : p_path[i] # "" ) =>
        LET ends == WalkEnds({RootOf(p_root)}, p_path)
        IN  /\ Cardinality(ends) <= 1
            /\ p_result # None <=> ends # {}
            /\ p_result # None => ends = {p_result}

\* "m" below T: t1 has that browse name and the later t2 that display name;
\* the first is returned
C16_Witness ==
    /\ p_phase = "done"
    /\ p_root = "T"
    /\ p_path = <<"m">>
    /\ p_result = "t1"

\* C17: a path with at least one non-empty segment resolves to what the
\* path without its empty segments resolves to.
C17_EmptySegmentsDiscarded ==
    (p_phase = "done" /\ \E i \in 1..Len(p_path) : p_path[i] # "") =>
        p_result = find_node_by_path(DropEmpty(p_path), p_root)

\* C18: a path made of empty segments only ("" and "...") resolves to
\* not-found, whatever the address space holds.
C18_EmptyPathNotFound ==
    (p_phase = "done" /\ \A i \in 1..Len(p_path) : p_path[i] = "") =>
        p_result = None

\* ------------------------------------------------------------------------
\* Claims about the TypeCache counters and stored values
\* ------------------------------------------------------------------------
\* what a get of key k in keyspace `cache` is to do to the counters: a hit
\* when k is stored there, a miss otherwise
CountsAsClaimed(cache, k) ==
    IF k \in SeqKeys(cache)
    THEN hits' = hits + 1 /\ misses' = misses
    ELSE hits' = hits /\ misses' = misses + 1

C19_Step ==
    /\ cache_op'.name = "get_definition" =>
           CountsAsClaimed(datatype_definitions, cache_op'.key)
    /\ cache_op'.name = "get_field_names" =>
           CountsAsClaimed(field_names, cache_op'.key)
    /\ cache_op'.name \in {"set_definition", "set_field_names"} =>
           hits' = hits /\ misses' = misses

\* C19: every get adds one to exactly one counter, to hits when the key is
\* stored in the keyspace asked and to misses when it is not, and a set
\* changes neither counter.
C19_CountersFollowGets == [][C19_Step]_vars

\* what C20 asks of one keyspace in one step: a set that returns stores its
\* value under its key; an entry that the step does not overwrite, evict or
\* clear keeps its value; a get returns the stored value
KeepsValues(cache, cacheAfter, setName, getName) ==
    /\ (cache_op'.name = setName /\ ~cache_op'.raised /\ max_size >= 1) =>
           /\ cache_op'.key \in SeqKeys(cacheAfter)
           /\ DictGet(cacheAfter, cache_op'.key) = cache_op'.val
    /\ \A k \in SeqKeys(cache) :
           ( /\ cache_op'.name # "clear"
             /\ ~(cache_op'.name = setName /\ cache_op'.key = k)
             /\ ~(cache_op'.name = setName /\ cache_op'.evicted = k) ) =>
               /\ k \in SeqKeys(cacheAfter)
               /\ DictGet(cacheAfter, k) = DictGet(cache, k)
    /\ cache_op'.name = getName => cache_op'.ret = DictGet(cache, cache_op'.key)
    /\ cache_op'.name \notin {setName, getName, "clear"} =>
           \A k \in CacheKeys : DictGet(cacheAfter, k) = DictGet(cache, k)

C20_Step ==
    /\ KeepsValues(datatype_definitions, datatype_definitions',
                   "set_definition", "get_definition")
    /\ KeepsValues(field_names, field_names', "set_field_names", "get_field_names")

\* C20: with capacity at least 1, a set stores its value under its key and a
\* get returns the stored value for as long as the key is not overwritten,
\* evicted or cleared; a call on one keyspace leaves every get of the other
\* keyspace as it was.
C20_GetReturnsWhatWasSet == [][C20_Step]_vars

\* a get returned the value stored by an earlier set_definition, a
\* set_field_names having been made in between or before
C20_Witness ==
    /\ cache_op.name = "get_definition"
    /\ cache_op.ret = "v1"
    /\ Len(field_names) >= 1

\* ------------------------------------------------------------------------
\* Claims about the Reader's cache across sessions
\* ------------------------------------------------------------------------
\* C21: once disconnect() of the Reader has returned, the Reader's TypeCache
\* holds no entry and both counters are zero, so nothing cached or counted in
\* one session is seen in the next.
C21_CacheEmptyAfterDisconnect ==
    (c_op.obj = "reader" /\ c_op.name \in {"disconnect", "aexit"}
        /\ c_op.outcome = "returned") =>
        /\ datatype_definitions = <<>>
        /\ field_names = <<>>
        /\ hits = 0
        /\ misses = 0

\* ------------------------------------------------------------------------
\* Claims about mapping values and invalid paths of a write
\* ------------------------------------------------------------------------
\* a write call sends a mapping: as the value itself or as an element of the
\* array written
SendsMapping(entry) ==
    \/ entry.variant.value.t = "dict"
    \/ /\ entry.variant.value.t = "list"
       /\ \E p \in 1..Len(entry.variant.value.items) :
             entry.variant.value.items[p].t = "dict"

\* C22: every requested path whose value is a mapping is marked false, and no
\* write call sends a mapping, whether the path is written on its own or as a
\* field of an array batch group.
C22_MappingsRejected ==
    Returned =>
        /\ \A i \in 1..Len(w_data) :
              (w_data[i].value.t = "dict" /\ KeyStr(w_data[i].path) \in DOMAIN w_results)
                  => ~w_results[KeyStr(w_data[i].path)]
        /\ \A j \in 1..Len(w_log) : ~SendsMapping(w_log[j])

\* a requested key that the validation rejects: no text, or text without any
\* non-empty segment (empty, or dots only)
EmptyOrNotText(path) ==
    ~path.isstr \/ \A i \in 1..Len(path.segs) : path.segs[i] = ""

\* the request without the rejected keys
AcceptedEntries(data) == SelectSeq(data, LAMBDA e : ~EmptyOrNotText(e.path))

\* C23: a path that is empty, no string, or dots only is recorded false at
\* once; it joins no group, so no node is resolved for it, and the write calls
\* issued are those of the request without it.
C23_InvalidPathRejectedAtOnce ==
    Returned =>
        /\ \A i \in 1..Len(w_data) :
              EmptyOrNotText(w_data[i].path) =>
                  /\ KeyStr(w_data[i].path) \in DOMAIN w_results
                  /\ ~w_results[KeyStr(w_data[i].path)]
                  /\ KeyStr(w_data[i].path) \in
                        DOMAIN GroupWrites(w_data, <<>>, <<>>).results
        /\ GroupWrites(w_data, <<>>, <<>>).grouped
              = GroupWrites(AcceptedEntries(w_data), <<>>, <<>>).grouped
        /\ w_log = write_values(AcceptedEntries(w_data), TARGET_OBJECT_NAME,
                                w_auto_convert, w_failing, InitialValues).log

\* a returned request with a non-string key, an empty or dots-only key, and an
\* accepted key that was written
C23_Witness ==
    /\ Returned
    /\ \E i \in 1..Len(w_data) : ~w_data[i].path.isstr
    /\ \E i \in 1..Len(w_data) : w_data[i].path.isstr /\ EmptyOrNotText(w_data[i].path)
    /\ Len(w_log) = 1
    /\ w_log[1].ok

\* ------------------------------------------------------------------------
\* Claims about the search of find_specific_object
\* ------------------------------------------------------------------------
\* C24: on an address space without read errors, when a node that is an Object
\* with the target name lies within max_level child references of the root,
\* the search returns a node, also when nodes are reached by several paths of
\* different lengths.
C24_ReachableTargetFound ==
    (f_phase = "done" /\ f_failing = {}
        /\ f_match \cap WithinDepth(f_max_level) # {}) => f_result # None

\* ------------------------------------------------------------------------
\* Claims about the result of get_child_objects
\* ------------------------------------------------------------------------
RECURSIVE ListWithin(_)
\* the nodes some chain of at most k child references leads to from the root
\* of the listing, the root at k = 0
ListWithin(k) ==
    IF k = 0 THEN {LRoot}
    ELSE ListWithin(k - 1) \cup
         UNION {Range(l_children[n]) : n \in ListWithin(k - 1)}

\* the nodes below the root that the depth bound admits: a call at level
\* max_level still lists the children of its node
ListDescendants ==
    UNION {Range(l_children[n]) : n \in ListWithin(l_max_level)}

\* C25: on an address space without read errors the list returned holds every
\* Object below the root within the depth bound, whatever the class of the
\* nodes on the way to it.
C25_EveryObjectListed ==
    (l_phase = "returned" /\ l_failing = {}) =>
        \A n \in l_objects \cap ListDescendants : n \in Range(l_result)

\* ------------------------------------------------------------------------
\* Claims about format_value
\* ------------------------------------------------------------------------
\* the children of the object handed to the gather of read_object_children,
\* with the tuple each read_single_child task has returned
Decoded(i) ==
    /\ r_call = "read_object_children"
    /\ r_phase \in {"gathering", "done"}
    /\ i \in 1..Len(r_tasks)
    /\ r_tasks[i].got

RECURSIVE WeightedBits(_, _, _)
\* the number whose bit i - 1 is the value decoded under names[i], over the
\* names from position i on
WeightedBits(m, names, i) ==
    IF i > Len(names) THEN 0
    ELSE m[names[i]].n * (2 ^ (i - 1)) + WeightedBits(m, names, i + 1)

\* C26: for a node with the enumeration list names[0..k-1] whose metadata can
\* be read, an integer value v that is no boolean is decoded to the mapping
\* names[i] -> bit i of v, and a boolean value is returned as it is.
C26_EnumIntegerUnpackedToBits ==
    \A i \in 1..Len(r_tasks) :
        (Decoded(i) /\ r_node[i].enum # <<>> /\ r_node[i].dtype # None) =>
            LET names == r_node[i].enum
                v == r_node[i].value
                out == r_tasks[i].value
            IN  /\ v.t = "int" =>
                    /\ out.t = "map"
                    /\ DOMAIN out.items = Range(names)
                    /\ \A name \in Range(names) :
                          out.items[name].t = "int" /\ out.items[name].n \in {0, 1}
                    /\ WeightedBits(out.items, names, 1) = v.n % (2 ^ Len(names))
                /\ v.t = "bool" => out = v

\* the claim's example, names [run, fault, ready] and v = 5, beside a boolean
\* that stayed as it was
C26_Witness ==
    \E i, j \in 1..Len(r_tasks) :
        /\ Decoded(i) /\ Decoded(j)
        /\ r_node[i].enum = <<"run", "fault", "ready">> /\ r_node[i].value = PyInt(5)
        /\ r_tasks[i].value.items["run"] = PyInt(1)
        /\ r_tasks[i].value.items["fault"] = PyInt(0)
        /\ r_tasks[i].value.items["ready"] = PyInt(1)
        /\ r_node[j].enum # <<>> /\ r_node[j].value = PyBool(TRUE)
        /\ r_tasks[j].value = PyBool(TRUE)

\* the field names discovered for a node: its own, else those of its data type
DiscoveredNames(node) ==
    IF get_variable_field_names(node) # <<>> THEN get_variable_field_names(node)
    ELSE get_structure_fields(node.dtype)

CarriesInput(variant, value) ==
    IF value.t \in {"list", "tuple"}
    THEN variant.value.t \in {"list", "tuple"} /\ variant.value.items = value.items
    ELSE variant.value.t = value.t /\ variant.value = value

\* C28: with a preferred type that is given and is not Variant the variant is
\* tagged with exactly that type; otherwise a boolean is tagged Boolean, an
\* integer Int32, a float Double, a text String, an empty sequence Null, and a
\* non-empty sequence by its first element (Boolean, Int32, Double, String,
\* else Variant); in every such case the variant carries the input.
C28_VariantTaggedAsClaimed ==
    v_phase = "done" =>
        IF v_prefer \notin {None, "Variant"}
        THEN v_variant.vtype = v_prefer /\ CarriesInput(v_variant, v_value)
        ELSE CASE v_value.t = "bool" ->
                    v_variant.vtype = "Boolean" /\ CarriesInput(v_variant, v_value)
               [] v_value.t = "int" ->
                    v_variant.vtype = "Int32" /\ CarriesInput(v_variant, v_value)
               [] v_value.t = "float" ->
                    v_variant.vtype = "Double" /\ CarriesInput(v_variant, v_value)
               [] v_value.t = "str" ->
                    v_variant.vtype = "String" /\ CarriesInput(v_variant, v_value)
               [] v_value.t \in {"list", "tuple"} /\ v_value.items = <<>> ->
                    v_variant.vtype = "Null" /\ v_variant.value = PyList(<<>>)
               [] v_value.t \in {"list", "tuple"} /\ v_value.items # <<>> ->
                    /\ v_variant.vtype =
                          (CASE v_value.items[1].t = "bool" -> "Boolean"
                             [] v_value.items[1].t = "int" -> "Int32"
                             [] v_value.items[1].t = "float" -> "Double"
                             [] v_value.items[1].t = "str" -> "String"
                             [] OTHER -> "Variant")
                    /\ CarriesInput(v_variant, v_value)
               [] OTHER -> TRUE

\* ------------------------------------------------------------------------
\* Claims about the visited set and the order of find_specific_object
\* ------------------------------------------------------------------------
\* the positions of the log at which the call did `op` to node n
LogPositions(op, n) == {k \in 1..Len(f_log) : f_log[k] = <<op, n>>}

\* C29: within one top-level call every node enters the visited set at most
\* once and has its children listed at most once, whatever the paths and
\* cycles that lead to it; the visited set holds exactly the nodes entered;
\* and once a node is visited neither its display name, its class nor its
\* children are read again.
C29_VisitedOnceNeverReread ==
    /\ f_visited = {f_log[k][2] : k \in {j \in 1..Len(f_log) : f_log[j][1] = "enter"}}
    /\ \A n \in f_visited :
          /\ Cardinality(LogPositions("enter", n)) = 1
          /\ Cardinality(LogPositions("children", n)) <= 1
          /\ \A k \in LogPositions("children", n) : k - 1 \in LogPositions("enter", n)
          /\ \A k \in LogPositions("check", n) :
                \A j \in LogPositions("enter", n) : k < j

\* a finished search in which a node with two entered parents, one of them
\* reached through a cycle back to the root, was entered once
C29_Witness ==
    /\ f_phase = "done"
    /\ \E n, p, q \in f_visited :
          /\ p # q
          /\ n \in Range(f_children[p]) /\ n \in Range(f_children[q])
          /\ LogPositions("children", p) # {} /\ LogPositions("children", q) # {}
          /\ f_root \in Range(f_children[n])
          /\ Cardinality(LogPositions("enter", n)) = 1

\* the children of the activation on top, in order, that check_child accepts
\* now: not visited, readable, an Object carrying the target name
MatchingChildren ==
    SelectSeq(f_children[Top.node],
              LAMBDA c : c \notin f_visited /\ c \notin f_failing /\ c \in f_match)

\* what a step of the search may do, by the place of the activation on top
C30_Step ==
    /\ f_phase = "running" /\ f_stack # <<>> /\ f_ret = NoRet =>
          \* the node itself first: a matching node is returned before its
          \* children are listed
          /\ (Top.pc = "enter" /\ Top.level <= f_max_level /\ Top.node \notin f_visited
                /\ Top.node \notin f_failing /\ Top.node \in f_match)
                => (f_ret' = Top.node /\ ~(\E k \in 1..Len(f_log') : f_log'[k][1] = "children"
                                                                   /\ f_log'[k][2] = Top.node))
          \* then the direct children: the first that matches is returned and
          \* nothing is entered; without one the descent starts at the first
          \* child
          /\ Top.pc = "check" =>
                IF MatchingChildren # <<>>
                THEN /\ f_ret' = Head(MatchingChildren)
                     /\ Len(f_stack') = Len(f_stack) - 1
                     /\ f_visited' = f_visited
                ELSE /\ f_ret' = NoRet
                     /\ f_stack' = [f_stack EXCEPT ![Len(f_stack)].pc = "recurse",
                                                   ![Len(f_stack)].idx = 1]
          \* the descent takes the children in order, one level down
          /\ (Top.pc = "recurse" /\ Top.idx <= Len(f_children[Top.node])) =>
                /\ Len(f_stack') = Len(f_stack) + 1
                /\ f_stack'[Len(f_stack')].node = f_children[Top.node][Top.idx]
                /\ f_stack'[Len(f_stack')].level = Top.level + 1
                /\ f_stack'[Len(f_stack')].pc = "enter"
    \* a node found is handed up unchanged and nothing more is examined; a
    \* child without result is followed by the next child
    /\ f_phase = "running" /\ f_ret # NoRet =>
          /\ f_log' = f_log /\ f_visited' = f_visited
          /\ IF f_ret # None
             THEN IF f_stack = <<>> THEN f_result' = f_ret ELSE f_ret' = f_ret
             ELSE f_stack # <<>> =>
                     /\ f_ret' = NoRet
                     /\ f_stack' = [f_stack EXCEPT ![Len(f_stack)].idx = @ + 1,
                                                   ![Len(f_stack)].pc = "recurse"]
    \* what is returned is an Object carrying the target name
    /\ f_result' # None => f_result' \in f_match /\ f_result' \notin f_failing

\* C30: a node returned is an Object whose display name is the target name;
\* an activation looks at its own node, then at its direct children, then
\* descends: the first direct child in order that matches and is not visited
\* is returned with no grandchild examined, and the descent, in children
\* order, starts only when no direct child matches.
C30_SelfThenChildrenThenDescent == [][C30_Step]_vars

\* a finished search that took the second direct child of a node whose first
\* child has children of its own, none of them examined
C30_Witness ==
    /\ f_phase = "done"
    /\ f_result # None
    /\ Len(f_children[f_root]) = 2
    /\ f_result = f_children[f_root][2]
    /\ f_children[f_root][1] # f_result
    /\ f_children[f_children[f_root][1]] # <<>>
    /\ f_log = <<<<"enter", f_root>>, <<"children", f_root>>,
                 <<"check", f_children[f_root][1]>>, <<"check", f_result>>>>

\* ------------------------------------------------------------------------
\* Claims about read errors in the Navigator
\* ------------------------------------------------------------------------
\* the first child of parent, in children order, that can be read and that
\* seg names; None when there is none
FirstReadable(parent, seg, failing) ==
    LET children == Children(parent)
        named == {i \in 1..Len(children) :
                     children[i] \notin failing /\ NameMatches(children[i], seg)}
    IN  IF named = {} THEN None
        ELSE children[CHOOSE i \in named : \A j \in named : i <= j]

RECURSIVE SkippingWalk(_, _, _)
\* the walk that passes over every child whose names cannot be read
SkippingWalk(node, segs, failing) ==
    IF node = None \/ segs = <<>> THEN node
    ELSE SkippingWalk(FirstReadable(node, Head(segs), failing), Tail(segs), failing)

\* the root lookup that passes over every child whose name cannot be read
SkippingRoot(root_object_name, failing) ==
    LET name == IF root_object_name = None THEN TARGET_OBJECT_NAME
                ELSE root_object_name
        tops == Children(ObjectsNode)
        named == {i \in 1..Len(tops) :
                     tops[i] \notin failing /\ DisplayName(tops[i]) = name}
    IN  IF named = {} THEN None
        ELSE tops[CHOOSE i \in named : \A j \in named : i <= j]

\* C31: a protocol error while reading one node's name is treated as that
\* node not matching and does not abort the operation: find_node_by_path
\* (and the root lookup find_object_by_name inside it) returns what the
\* resolution returns that passes over the children whose names cannot be
\* read, so a later sibling of a failing child that matches is still found.
C31_ReadErrorSkipsNode ==
    p_phase = "done" =>
        p_result = SkippingWalk(SkippingRoot(p_root, p_failing), p_path, p_failing)

\* ------------------------------------------------------------------------
\* Claims about the array sent by an array batch write
\* ------------------------------------------------------------------------
\* the position (from 1) of the first child of node that name names, 0 when
\* no child is so named
ChildPosition(node, name) ==
    LET at == {p \in 1..Len(Children(node)) : NameMatches(Children(node)[p], name)}
    IN  IF at = {} THEN 0 ELSE CHOOSE p \in at : \A q \in at : p <= q

\* the fields of a group that address position p of an array of length n
Addressing(node, fields, p, n) ==
    {i \in 1..Len(fields) :
        /\ fields[i].key # None
        /\ p <= n
        /\ ChildPosition(node, fields[i].key) = p}

\* the value requested for position p of node's array, as a boolean when
\* types are converted and the child at p has wire type Boolean
Requested(node, p, value) ==
    IF w_auto_convert /\ get_node_variant_type(Children(node)[p]) = "Boolean"
    THEN PyTruth(value) ELSE value

\* the array write calls of the request: those that sent a sequence
ArrayWrites == {j \in 1..Len(w_log) : w_log[j].variant.value.t = "list"}

ReplacesInPlace(cache, cacheAfter, setName) ==
    ( /\ cache_op'.name = setName /\ ~cache_op'.raised
      /\ cache_op'.key \in SeqKeys(cache) )
    => /\ SeqKeys(cacheAfter) = SeqKeys(cache)
       /\ Len(cacheAfter) = Len(cache)

C33_Step ==
    /\ ReplacesInPlace(datatype_definitions, datatype_definitions', "set_definition")
    /\ ReplacesInPlace(field_names, field_names', "set_field_names")

\* C33: a set on a key that is already present in its keyspace replaces the
\* key's value and removes no other key, also when the keyspace holds
\* max_size entries: the keys and the number of entries are unchanged.
C33_SetOnPresentKeyEvictsNothing == [][C33_Step]_vars

\* ------------------------------------------------------------------------
\* Claims about the termination of get_child_objects
\* ------------------------------------------------------------------------
\* C34: get_child_objects returns on every address space, cyclic ones
\* included, for every max_level and every max_concurrent >= 1: a task that
\* holds a permit while its nested call's tasks wait for permits does not
\* block them, and the depth bound ends the descent round a cycle.
C34_ListTerminates == <>(l_phase = "returned")

\* a call with max_concurrent = 1 on the cyclic address space has returned
\* after the task of p, holding the only permit of the top-level call,
\* waited for the nested exploration of p's child r
C34_Witness ==
    /\ l_phase = "returned"
    /\ l_max_concurrent = 1
    /\ l_children["p"] = <<"r">>
    /\ <<"p", "r">> \in DOMAIN l_task
    /\ l_task[<<"p", "r">>].st = "done"

\* ------------------------------------------------------------------------
\* Claims about format_value on nodes whose metadata cannot be read
\* ------------------------------------------------------------------------
\* the metadata a call obtained: the enumeration list, the display names of
\* the node's children, the display names of the data type's children
ObtainedEnum(node) ==
    IF node.fails \cap {"children", "enum"} = {} THEN Range(node.enum) ELSE {}

ObtainedFields(node) ==
    (IF "children" \in node.fails THEN {}
     ELSE {node.kids[i].name : i \in {j \in 1..Len(node.kids) : "name" \notin node.kids[j].fails}}
          \cup (IF node.enum # <<>> THEN {EnumChildName} ELSE {}))
    \cup (IF "typedef" \in node.fails \/ node.dtype # "Pair" THEN {} ELSE {"d0", "d1"})

\* result decodes the integer n with names that were obtained
IsBitDecoding(result, node) ==
    /\ result.t = "map"
    /\ DOMAIN result.items \subseteq ObtainedEnum(node)
    /\ \A k \in DOMAIN result.items : result.items[k] \in {PyInt(0), PyInt(1)}

\* result holds the elements of the sequence, each once, under a field name
\* that was obtained or under its index
IsSequenceDecoding(result, node) ==
    /\ result.t = "map"
    /\ node.value.t = "list"
    /\ Cardinality(DOMAIN result.items) = Len(node.value.items)
    /\ \A k \in DOMAIN result.items :
          \/ \E i \in 1..Len(node.value.items) :
                k = IndexKey(i - 1) /\ result.items[k] = node.value.items[i]
          \/ \E name \in ObtainedFields(node), i \in 1..Len(node.value.items) :
                k = NameKey(name) /\ result.items[k] = node.value.items[i]

\* C35: format_value returns a value on every node, whichever metadata reads
\* raise: without a data type it returns the raw value after the one read of
\* the data type, probing neither the enumeration list nor any field names;
\* otherwise it returns the raw value or a decoding of it that uses only the
\* names that were obtained.
C35_FormatValueDegrades ==
    fv_phase = "done" =>
        /\ fv_node.dtype = None =>
              fv_result = fv_node.value /\ fv_probes = <<"data_type">>
        /\ CASE fv_node.value.t = "int" ->
                    fv_result = fv_node.value \/ IsBitDecoding(fv_result, fv_node)
             [] fv_node.value.t = "list" ->
                    fv_result = fv_node.value \/ IsSequenceDecoding(fv_result, fv_node)
             [] OTHER -> fv_result = fv_node.value

\* a sequence on a node whose children cannot be listed, with a data type
\* that has fields: the own names and the enumeration list were not obtained,
\* the data type's names were, and the result is built from those
C35_Witness ==
    /\ fv_phase = "done"
    /\ fv_node.fails = {"children"}
    /\ fv_node.enum # <<>>
    /\ fv_node.kids # <<>>
    /\ fv_node.dtype = "Pair"
    /\ fv_result.t = "map"
    /\ DOMAIN fv_result.items = {NameKey("d0"), NameKey("d1"), IndexKey(2)}
    /\ fv_probes = <<"data_type", "enum", "fields", "typedef">>

\* ------------------------------------------------------------------------
\* Claims about write calls that run concurrently
\* ------------------------------------------------------------------------
\* the positions (from 1) of the parent's array that a call's fields address
RacePositions(call) ==
    {ChildPosition(RaceParent, rw_fields[call][i].key) : i \in 1..Len(rw_fields[call])}

\* every field of the call is marked true in the map it returned
AllMarkedTrue(call) ==
    \A i \in 1..Len(rw_fields[call]) :
        LET full_path == <<RaceParent, rw_fields[call][i].key>>
        IN  full_path \in DOMAIN rw_results[call] /\ rw_results[call][full_path]

\* the value the parent's array is to hold at position p for the call
RaceRequested(call, p) ==
    IF get_node_variant_type(Children(RaceParent)[p]) = "Boolean"
    THEN PyTruth(RaceSent(call)) ELSE RaceSent(call)

\* C36: when two concurrent write calls batch-write disjoint fields of the
\* same array-valued parent and both have returned with their fields marked
\* true, the parent's array holds the values requested by both calls.
C36_ConcurrentBatchWritesBothTakeEffect ==
    ( /\ \A call \in RaceCalls : rw_pc[call] = "done" /\ AllMarkedTrue(call)
      /\ RacePositions("c1") \cap RacePositions("c2") = {} )
    => \A call \in RaceCalls : \A p \in RacePositions(call) :
            rw_value.items[p] = RaceRequested(call, p)

\* ------------------------------------------------------------------------
\* Claims about the root object of Reader and Writer
\* ------------------------------------------------------------------------
\* C37: whenever the Reader's connect has located the target object, the
\* Writer configured with the same target object name resolves its paths
\* from that same object.
C37_ReaderAndWriterShareRoot ==
    (f_phase = "done" /\ f_result # None) => WriterRoot(cr_target) = f_result

\* ---------------------------------------------------------------------
\* read_all over objects with equal display names

MaxObjs == 2       \* children of the object that read_all reads

\* the children the object can have: a variable, two objects of one display
\* name with different values, an object with the display name of the
\* target object, and an object holding a further object of that same name
ReadAllKids ==
    { Leaf("v", PyInt(5), {}),
      Kid("o", "Object", PyNone, None, <<>>, {}, <<Leaf("g", PyInt(1), {})>>),
      Kid("o", "Object", PyNone, None, <<>>, {}, <<Leaf("g", PyInt(2), {})>>),
      Kid(TARGET_OBJECT_NAME, "Object", PyNone, None, <<>>, {},
          <<Leaf("g", PyInt(3), {})>>),
      Kid("p", "Object", PyNone, None, <<>>, {},
          <<Leaf("h", PyInt(4), {"value"}),
            Kid("o", "Object", PyNone, None, <<>>, {},
                <<Leaf("g", PyInt(4), {})>>)>>) }

\* a connected reader whose object has up to MaxObjs of these children
ReadAllInit ==
    /\ r_kids \in UNION {[1..n -> ReadAllKids] : n \in 0..MaxObjs}
    /\ r_browse_fails \in BOOLEAN
    /\ r_name = None
    /\ r_call = None
    /\ r_scan = 0
    /\ r_node = <<>>
    /\ r_tasks = <<>>
    /\ r_all_data = <<>>
    /\ r_result = NoResult
    /\ r_phase = "setup"

\* read_all and the tasks it awaits
AnySingleChildStep == \E i \in DOMAIN r_tasks : ReadSingleChild(i)
AnyChildObjectStep == \E i \in DOMAIN r_tasks : ReadChildObject(i)

ReadAllNext ==
    \/ ReadAllCall
    \/ AnySingleChildStep
    \/ ReadCollect
    \/ AnyChildObjectStep
    \/ ReadAllCollect

InitReadAll ==
    ReadAllInit /\ CacheIdle /\ WriteIdle /\ FindIdle /\ ListIdle /\ ConnIdle
        /\ PathIdle /\ VariantIdle /\ FormatIdle /\ RaceIdle /\ DiscIdle

SpecReadAll ==
    /\ InitReadAll
    /\ [][ReadAllNext]_vars

\* the objects read_all visits below the target object
ObjectsBelow == get_child_objects(EpacNode, 0, READ_ALL_MAX_LEVEL)

\* the positions in ObjectsBelow of the objects that gave at least one value
WithValues == {i \in 1..Len(ObjectsBelow) : read_object_children(ObjectsBelow[i]) # <<>>}

\* the values of the target object itself
OwnValues == read_object_children(EpacNode)

\* C38: when read_all has returned, every object below the target that gave
\* at least one value has its values in the result under its name, the
\* target object has its own values there when it gave any, and the result
\* has as many entries as there are such objects, also when display names
\* are equal.
C38_ReadAllKeepsEveryObject ==
    (r_phase = "done" /\ r_call = "read_all") =>
        /\ \A i \in WithValues :
               /\ ObjectsBelow[i].name \in DOMAIN r_result.items
               /\ r_result.items[ObjectsBelow[i].name]
                      = PyMap(read_object_children(ObjectsBelow[i]))
        /\ OwnValues # <<>> =>
               /\ TARGET_OBJECT_NAME \in DOMAIN r_result.items
               /\ r_result.items[TARGET_OBJECT_NAME] = PyMap(OwnValues)
        /\ Cardinality(DOMAIN r_result.items)
               = Cardinality(WithValues) + (IF OwnValues # <<>> THEN 1 ELSE 0)

\* ---------------------------------------------------------------------
\* field-name discovery by concurrent decodes that share one TypeCache

\* the read_single_child tasks of one gather
DiscTasks == {"c1", "c2", "c3"}

\* the data-type nodes: T1 has two children, T2 has none
DiscKeys == {"T1", "T2"}

\* the display names of the children of a data-type node
DiscChildNames(key) == IF key = "T1" THEN <<"x", "y">> ELSE <<>>

\* the cache of the session is empty and every task is about to call
\* get_structure_fields for the data type of its value
DiscInit ==
    /\ dc_key \in [DiscTasks -> DiscKeys]
    /\ dc_pc = [task \in DiscTasks |-> "start"]
    /\ dc_names = <<>>
    /\ dc_browses = [key \in DiscKeys |-> 0]
    /\ dc_answer = [task \in DiscTasks |-> None]

\* get_structure_fields up to its first await: type_cache.get_field_names
\* answers from the cache, or datatype_node.get_children() is issued and
\* the task is suspended
DiscLookup(task) ==
    /\ dc_pc[task] = "start"
    /\ IF dc_key[task] \in DOMAIN dc_names
       THEN /\ dc_answer' = [dc_answer EXCEPT ![task] = dc_names[dc_key[task]]]
            /\ dc_pc' = [dc_pc EXCEPT ![task] = "done"]
            /\ UNCHANGED dc_browses
       ELSE /\ dc_browses' = [dc_browses EXCEPT ![dc_key[task]] = @ + 1]
            /\ dc_pc' = [dc_pc EXCEPT ![task] = "browsing"]
            /\ UNCHANGED dc_answer
    /\ UNCHANGED <<dc_key, dc_names>>
    /\ UNCHANGED notDisc

\* the children have arrived and their display names are read: a non-empty
\* list goes to type_cache.set_field_names and is returned, an empty one
\* gives None and nothing is stored
DiscStore(task) ==
    /\ dc_pc[task] = "browsing"
    /\ LET names == DiscChildNames(dc_key[task])
       IN  IF names # <<>>
           THEN /\ dc_names' = Put(dc_names, dc_key[task], names)
                /\ dc_answer' = [dc_answer EXCEPT ![task] = names]
           ELSE /\ UNCHANGED <<dc_names, dc_answer>>
    /\ dc_pc' = [dc_pc EXCEPT ![task] = "done"]
    /\ UNCHANGED <<dc_key, dc_browses>>
    /\ UNCHANGED notDisc

DiscLookupStep == \E task \in DiscTasks : DiscLookup(task)
DiscStoreStep == \E task \in DiscTasks : DiscStore(task)

DiscNext ==
    \/ DiscLookupStep
    \/ DiscStoreStep

InitDisc ==
    DiscInit /\ CacheIdle /\ WriteIdle /\ FindIdle /\ ListIdle /\ ConnIdle /\ ReadIdle
        /\ PathIdle /\ VariantIdle /\ FormatIdle /\ RaceIdle

SpecDisc ==
    /\ InitDisc
    /\ [][DiscNext]_vars

\* C39: a data-type key that has an entry in the field-names keyspace has
\* been browsed at most once in the session, however the decoding tasks
\* that share the key interleave.
C39_DiscoveryBrowsesOncePerKey ==
    \A key \in DiscKeys : key \in DOMAIN dc_names => dc_browses[key] <= 1

====
